---- MODULE Spec2Model ----
(***************************************************************************)
(* Model of the XML-to-model extraction pipeline of the Moodle evaluation  *)
(* parser: XMLParser.parse_courses / XMLParser.parse (grouping loop),      *)
(* XMLParser._extract_course_name and XMLParser._parse_question_element.   *)
(*                                                                         *)
(* Text is modelled as a sequence of one-character strings, so that        *)
(* strip(), lower(), startswith() and split('/') are computed, not assumed.*)
(* Python's Optional[T] is a sequence of at most one T: None is <<>> and   *)
(* a present value v is <<v>>.  The Cyrillic literals of the source are    *)
(* transliterated to ASCII ("Bez kategorii", "Verno", "Neverno").          *)
(***************************************************************************)
EXTENDS Integers, Sequences, FiniteSets, TLC

VARIABLES
    pc,                  \* position of the running call
    file_exists,         \* input: xml_file_path.exists()
    is_valid,            \* input: result of validate_xml_file on the raw file
    cleaned_xml,         \* input: outcome of ET.fromstring(cleaned_xml)
    all_elements,        \* list(self.root.findall('.//question'))
    i,                   \* loop index of parse_courses (0-based)
    courses,             \* courses emitted so far
    current_course_name, \* Optional[str]
    current_course,      \* Optional[Course]
    last_category_name,  \* Optional[str]
    result,              \* outcome of parse_courses / parse
    category_element,    \* input of _extract_course_name (Optional text)
    category_name,       \* output of _extract_course_name
    question_element,    \* input of _parse_question_element
    question_data,       \* output of _parse_question_element
    xml_content,         \* input of clean_xml_file
    cleaned,             \* Optional[str]: clean_xml_file(xml_content)
    recleaned,           \* Optional[str]: clean_xml_file of cleaned
    question_type,       \* input of the presets and of migrate_v1_to_v2
    v1_config,           \* input of migrate_v1_to_v2
    config,              \* the template configuration at hand
    errors,              \* Optional: validate_template_config_v2(config)
    question_dict,       \* the question given to render_question_html
    metadata,            \* the metadata given to render_question_html
    task_number,         \* the task number given to render_question_html
    nodes,               \* Optional: render_question_html(config, ...)
    eval_expr,           \* the expression given to _eval_pipe
    eval_item,           \* the item given to _eval_pipe
    eval_value,          \* Optional[str]: _eval_pipe(eval_expr, ctx, eval_item)
    heap,                \* the dicts and lists of the interpreter, by address
    v1_ref,              \* the legacy configuration object of the caller
    results,             \* the objects returned by the calls so far
    store,               \* the content of the template store file
    requests             \* the running requests on the template store

\* the state of the parser
parserVars == <<file_exists, is_valid, cleaned_xml, all_elements, i, courses,
                current_course_name, current_course, last_category_name, result,
                category_element, category_name, question_element, question_data>>

\* the state of the sanitizer
cleanVars == <<xml_content, cleaned, recleaned>>

\* the state of the template engine
templateVars == <<question_type, v1_config, config, errors, question_dict, metadata,
                  task_number, nodes>>

\* the state of the expression evaluator
evalVars == <<eval_expr, eval_item, eval_value>>

\* the objects of the caller of the template engine
heapVars == <<heap, v1_ref, results>>

\* the state of the template store
storeVars == <<store, requests>>

\* the state of the components the parser does not touch
componentVars == <<cleanVars, templateVars, evalVars, heapVars, storeVars>>

vars == <<pc, parserVars, componentVars>>

-----------------------------------------------------------------------------
(* Bounds of the model *)

\* longest element stream of a parsed file
MaxElements == 4
\* longest remainder of a category path after the root prefix
MaxRest == 4
\* most answer elements of one question
MaxAnswers == 3
\* most subquestion elements of one matching question
MaxSub == 3

-----------------------------------------------------------------------------
(* Python values *)

None == <<>>
Some(v) == <<v>>
IsNone(o) == o = <<>>
Val(o) == o[1]

\* the sanitizer has not been called
CleanIdle ==
    /\ xml_content = <<>>
    /\ cleaned = None
    /\ recleaned = None

\* the template engine has not been called
TemplateIdle ==
    /\ question_type = ""
    /\ v1_config = None
    /\ config = None
    /\ errors = None
    /\ question_dict = None
    /\ metadata = None
    /\ task_number = 0
    /\ nodes = None

\* _eval_pipe has not been called
EvalIdle ==
    /\ eval_expr = <<>>
    /\ eval_item = None
    /\ eval_value = None

\* no object has been built
HeapIdle ==
    /\ heap = <<>>
    /\ v1_ref = None
    /\ results = <<>>

\* no request on the template store
StoreIdle ==
    /\ store = <<>>
    /\ requests = <<>>

\* the characters str.strip() removes
Whitespace == {" "}

RECURSIVE lstrip(_)
\* str.lstrip()
lstrip(s) ==
    IF s # <<>> /\ s[1] \in Whitespace THEN lstrip(Tail(s)) ELSE s

RECURSIVE rstrip(_)
\* str.rstrip()
rstrip(s) ==
    IF s # <<>> /\ s[Len(s)] \in Whitespace
    THEN rstrip(SubSeq(s, 1, Len(s) - 1))
    ELSE s

\* str.strip()
strip(s) == rstrip(lstrip(s))

\* str.startswith(prefix)
startswith(s, prefix) ==
    /\ Len(s) >= Len(prefix)
    /\ SubSeq(s, 1, Len(prefix)) = prefix

\* s[n:]
SliceFrom(s, n) == SubSeq(s, n + 1, Len(s))

RECURSIVE SplitAcc(_, _, _)
SplitAcc(s, sep, cur) ==
    IF s = <<>> THEN <<cur>>
    ELSE IF s[1] = sep THEN <<cur>> \o SplitAcc(Tail(s), sep, <<>>)
    ELSE SplitAcc(Tail(s), sep, Append(cur, s[1]))

\* str.split(sep) for a one-character separator
split(s, sep) == SplitAcc(s, sep, <<>>)

LowerOf(c) ==
    CASE c = "T" -> "t"
      [] c = "F" -> "f"
      [] c = "M" -> "m"
      [] c = "V" -> "v"
      [] c = "N" -> "n"
      [] c = "P" -> "p"
      [] OTHER -> c

\* str.lower()
lower(s) == [k \in 1..Len(s) |-> LowerOf(s[k])]

RECURSIVE StrippedParts(_)
\* [part.strip() for part in parts if part.strip()]
StrippedParts(parts) ==
    IF parts = <<>> THEN <<>>
    ELSE IF strip(parts[1]) # <<>>
         THEN <<strip(parts[1])>> \o StrippedParts(Tail(parts))
         ELSE StrippedParts(Tail(parts))

\* the elements of a sequence
Range(s) == {s[k] : k \in 1..Len(s)}

\* Python's < on str, by code point (ASCII order of the modelled characters)
Ord(c) ==
    CASE c = " " -> 32
      [] c = "/" -> 47
      [] c = "B" -> 66
      [] c = "F" -> 70
      [] c = "M" -> 77
      [] c = "N" -> 78
      [] c = "T" -> 84
      [] c = "V" -> 86
      [] c = "a" -> 97
      [] c = "b" -> 98
      [] c = "c" -> 99
      [] c = "e" -> 101
      [] c = "f" -> 102
      [] c = "l" -> 108
      [] c = "m" -> 109
      [] c = "n" -> 110
      [] c = "o" -> 111
      [] c = "p" -> 112
      [] c = "q" -> 113
      [] c = "r" -> 114
      [] c = "s" -> 115
      [] c = "t" -> 116
      [] c = "u" -> 117
      [] c = "v" -> 118
      [] c = "x" -> 120
      [] c = "y" -> 121
      [] OTHER -> 36

RECURSIVE StrLess(_, _)
StrLess(a, b) ==
    IF b = <<>> THEN FALSE
    ELSE IF a = <<>> THEN TRUE
    ELSE IF a[1] = b[1] THEN StrLess(Tail(a), Tail(b))
    ELSE Ord(a[1]) < Ord(b[1])

RECURSIVE sorted(_)
\* sorted(list(S)) for a set S of str
sorted(S) ==
    IF S = {} THEN <<>>
    ELSE LET m == CHOOSE x \in S : \A y \in S \ {x} : StrLess(x, y)
         IN  <<m>> \o sorted(S \ {m})

RECURSIVE Concat(_)
\* the concatenation of a sequence of sequences
Concat(ss) == IF ss = <<>> THEN <<>> ELSE ss[1] \o Concat(Tail(ss))

\* dict.get(key, default)
Get(d, key, default) == IF key \in DOMAIN d THEN d[key] ELSE default

-----------------------------------------------------------------------------
(* XMLParser._extract_course_name *)

\* stand-in for "$module$/top/<default category of the course bank>": like the
\* source's prefix it starts with '$', holds '/' and ' ' inside and has no
\* whitespace at either end
CATEGORY_PREFIX == <<"$", "m", "/", "t", "/", "p", " ", "q">>

\* a prefix test that forgets the '/' boundary after the prefix
_extract_course_name_noslash(category_text) ==
    IF IsNone(category_text) THEN None
    ELSE LET category_path == strip(Val(category_text)) IN
      IF ~startswith(category_path, CATEGORY_PREFIX) THEN None
      ELSE LET relative_path == strip(SliceFrom(category_path, Len(CATEGORY_PREFIX))) IN
        IF relative_path = <<>> THEN None
        ELSE LET parts == StrippedParts(split(relative_path, "/")) IN
             IF parts # <<>> THEN Some(parts[Len(parts)]) ELSE None

\* category_text is Optional[str]: the text of the element's category/text
\* node, None when the node or its text is missing
_extract_course_name(category_text) ==
    IF IsNone(category_text) THEN None
    ELSE LET category_path == strip(Val(category_text)) IN
      IF ~startswith(category_path, CATEGORY_PREFIX) THEN None
      ELSE LET relative_path == strip(SliceFrom(category_path, Len(CATEGORY_PREFIX))) IN
        IF relative_path = <<>> \/ ~startswith(relative_path, <<"/">>) THEN None
        ELSE LET relative_path2 == SliceFrom(relative_path, 1) IN
          IF relative_path2 = <<>> THEN None
          ELSE LET parts == StrippedParts(split(relative_path2, "/")) IN
               IF parts # <<>> THEN Some(parts[Len(parts)]) ELSE None

-----------------------------------------------------------------------------
(* XMLParser._parse_question_element and Question.from_dict *)

\* A question element is a record
\*   type            the 'type' attribute
\*   questiontext, referenceanswer, name
\*                   Optional[str]: the text of the node, None when the node
\*                   is missing
\*   answers         the elements of findall('.//answer'), each
\*                   [text, fraction]; text is "" when the answer has no text
\*                   node or the node has no text
\*   subquestions    the elements of findall('.//subquestion'), each
\*                   [text, answer]: text is the Optional[str] of the
\*                   subquestion's own text node, answer the Optional[str] of
\*                   its nested answer element ("" when that has no text)
\*   category        Optional[str]: the text of category/text

TextOrEmpty(node) == IF IsNone(node) THEN <<>> ELSE Val(node)

RECURSIVE MultichoiceAnswers_positive(_, _)
\* a multichoice loop that takes only positive fractions as correct
MultichoiceAnswers_positive(answer_elems, acc) ==
    IF answer_elems = <<>> THEN acc
    ELSE LET answer_elem == answer_elems[1] IN
         IF answer_elem.text # <<>>
         THEN MultichoiceAnswers_positive(Tail(answer_elems),
                [answers |-> Append(acc.answers, answer_elem.text),
                 correct_answers |->
                    IF answer_elem.fraction > 0
                    THEN Append(acc.correct_answers, answer_elem.text)
                    ELSE acc.correct_answers])
         ELSE MultichoiceAnswers_positive(Tail(answer_elems), acc)

RECURSIVE MultichoiceAnswers(_, _)
\* the loop of the multichoice branch; acc is
\* [answers |-> ..., correct_answers |-> ...]
MultichoiceAnswers(answer_elems, acc) ==
    IF answer_elems = <<>> THEN acc
    ELSE LET answer_elem == answer_elems[1] IN
         IF answer_elem.text # <<>>
         THEN MultichoiceAnswers(Tail(answer_elems),
                [answers |-> Append(acc.answers, answer_elem.text),
                 correct_answers |->
                    IF answer_elem.fraction # 0
                    THEN Append(acc.correct_answers, answer_elem.text)
                    ELSE acc.correct_answers])
         ELSE MultichoiceAnswers(Tail(answer_elems), acc)

\* subquestion_elem.find('.//text'): the first text node below the
\* subquestion in document order, which is the nested answer's text node when
\* the subquestion has no text node of its own
SubquestionText(subquestion_elem) ==
    IF ~IsNone(subquestion_elem.text) THEN Val(subquestion_elem.text)
    ELSE IF ~IsNone(subquestion_elem.answer) THEN Val(subquestion_elem.answer)
    ELSE <<>>

RECURSIVE MatchingItems(_, _)
\* the loop of the matching branch; acc is
\* [matching_items |-> ..., answer_set |-> ...]
MatchingItems(subquestion_elems, acc) ==
    IF subquestion_elems = <<>> THEN acc
    ELSE LET subquestion_elem == subquestion_elems[1]
             matching_item_text == SubquestionText(subquestion_elem)
         IN
         IF ~IsNone(subquestion_elem.answer)
            /\ matching_item_text # <<>>
            /\ Val(subquestion_elem.answer) # <<>>
         THEN MatchingItems(Tail(subquestion_elems),
                [matching_items |->
                    Append(acc.matching_items,
                           [item |-> matching_item_text,
                            answer |-> Val(subquestion_elem.answer)]),
                 answer_set |-> acc.answer_set \cup {Val(subquestion_elem.answer)}])
         ELSE MatchingItems(Tail(subquestion_elems), acc)

RECURSIVE ShortanswerCorrect_positive(_, _)
\* a shortanswer loop that takes only positive fractions as correct
ShortanswerCorrect_positive(answer_elems, correct_answers) ==
    IF answer_elems = <<>> THEN correct_answers
    ELSE LET answer_elem == answer_elems[1] IN
         IF answer_elem.fraction > 0 /\ answer_elem.text # <<>>
         THEN ShortanswerCorrect_positive(Tail(answer_elems),
                                          Append(correct_answers, answer_elem.text))
         ELSE ShortanswerCorrect_positive(Tail(answer_elems), correct_answers)

RECURSIVE ShortanswerCorrect(_, _)
\* the loop of the shortanswer branch
ShortanswerCorrect(answer_elems, correct_answers) ==
    IF answer_elems = <<>> THEN correct_answers
    ELSE LET answer_elem == answer_elems[1] IN
         IF answer_elem.fraction # 0 /\ answer_elem.text # <<>>
         THEN ShortanswerCorrect(Tail(answer_elems),
                                 Append(correct_answers, answer_elem.text))
         ELSE ShortanswerCorrect(Tail(answer_elems), correct_answers)

Verno == <<"V", "e", "r", "n", "o">>
Neverno == <<"N", "e", "v", "e", "r", "n", "o">>

\* the conversion of true/false into the labels of the document
RussianAnswer(answer_text) ==
    IF answer_text = <<"t", "r", "u", "e">> THEN Verno
    ELSE IF answer_text = <<"f", "a", "l", "s", "e">> THEN Neverno
    ELSE answer_text

\* the fraction that marks a truefalse answer as correct
FullFraction == 100

TruefalseIsCorrect(fraction) == fraction = FullFraction

RECURSIVE TruefalseScan_rawcorrect(_, _)
\* a scan that records the text as read, not its label, as correct
TruefalseScan_rawcorrect(answer_elems, acc) ==
    IF answer_elems = <<>> THEN acc
    ELSE LET answer_elem == answer_elems[1] IN
         IF answer_elem.text # <<>>
         THEN LET russian_answer == RussianAnswer(lower(strip(answer_elem.text))) IN
              TruefalseScan_rawcorrect(Tail(answer_elems),
                [answer_dict |->
                    IF russian_answer \in Range(acc.answer_dict)
                    THEN acc.answer_dict
                    ELSE Append(acc.answer_dict, russian_answer),
                 correct_answers |->
                    IF answer_elem.fraction = 100
                    THEN Append(acc.correct_answers, answer_elem.text)
                    ELSE acc.correct_answers])
         ELSE TruefalseScan_rawcorrect(Tail(answer_elems), acc)

RECURSIVE TruefalseScan(_, _)
\* the first loop of the truefalse branch; acc is
\* [answer_dict |-> the keys of answer_dict in insertion order,
\*  correct_answers |-> ...]
TruefalseScan(answer_elems, acc) ==
    IF answer_elems = <<>> THEN acc
    ELSE LET answer_elem == answer_elems[1] IN
         IF answer_elem.text # <<>>
         THEN LET russian_answer == RussianAnswer(lower(strip(answer_elem.text))) IN
              TruefalseScan(Tail(answer_elems),
                [answer_dict |->
                    IF russian_answer \in Range(acc.answer_dict)
                    THEN acc.answer_dict
                    ELSE Append(acc.answer_dict, russian_answer),
                 correct_answers |->
                    IF TruefalseIsCorrect(answer_elem.fraction)
                    THEN Append(acc.correct_answers, russian_answer)
                    ELSE acc.correct_answers])
         ELSE TruefalseScan(Tail(answer_elems), acc)

RECURSIVE OtherLabels(_)
\* [answer for answer in answer_dict if answer not in ['Verno', 'Neverno']]
OtherLabels(keys) ==
    IF keys = <<>> THEN <<>>
    ELSE IF keys[1] \notin {Verno, Neverno}
         THEN <<keys[1]>> \o OtherLabels(Tail(keys))
         ELSE OtherLabels(Tail(keys))

\* a truefalse ordering that keeps the labels in encounter order
TruefalseAnswers_unordered(answer_dict) == answer_dict

\* the ordering of the truefalse labels
TruefalseAnswers(answer_dict) ==
    (IF Verno \in Range(answer_dict) THEN <<Verno>> ELSE <<>>)
    \o (IF Neverno \in Range(answer_dict) THEN <<Neverno>> ELSE <<>>)
    \o OtherLabels(answer_dict)

\* the dict returned for one question element
_parse_question_element(question_element_) ==
    LET base == [type |-> question_element_.type,
                 question_text |-> TextOrEmpty(question_element_.questiontext),
                 reference_answer |-> TextOrEmpty(question_element_.referenceanswer),
                 name |-> TextOrEmpty(question_element_.name)]
    IN
    IF base.type = "multichoice" THEN
        MultichoiceAnswers(question_element_.answers,
                           [answers |-> <<>>, correct_answers |-> <<>>]) @@ base
    ELSE IF base.type = "matching" THEN
        LET m == MatchingItems(question_element_.subquestions,
                               [matching_items |-> <<>>, answer_set |-> {}])
        IN [matching_items |-> m.matching_items,
            matching_answers |-> sorted(m.answer_set)] @@ base
    ELSE IF base.type = "shortanswer" THEN
        LET correct_answers == ShortanswerCorrect(question_element_.answers, <<>>)
        IN [correct_answers |-> correct_answers,
            reference_answer |->
                IF correct_answers # <<>> THEN correct_answers[1] ELSE <<>>] @@ base
    ELSE IF base.type = "truefalse" THEN
        LET t == TruefalseScan(question_element_.answers,
                               [answer_dict |-> <<>>, correct_answers |-> <<>>])
        IN [answers |-> TruefalseAnswers(t.answer_dict),
            correct_answers |-> t.correct_answers] @@ base
    ELSE base

\* Question.from_dict
Question_from_dict(data) ==
    [type |-> Get(data, "type", ""),
     question_text |-> Get(data, "question_text", <<>>),
     reference_answer |-> Get(data, "reference_answer", <<>>),
     name |-> Get(data, "name", <<>>),
     answers |-> Get(data, "answers", <<>>),
     correct_answers |-> Get(data, "correct_answers", <<>>),
     matching_items |-> Get(data, "matching_items", <<>>),
     matching_answers |-> Get(data, "matching_answers", <<>>)]

-----------------------------------------------------------------------------
(* Course *)

\* Course(name=name)
Course(name) == [name |-> name, questions |-> <<>>]

\* an add_question that puts the question in front
add_question_front(course, question) ==
    [course EXCEPT !.questions = <<question>> \o course.questions]

\* Course.add_question
add_question(course, question) ==
    [course EXCEPT !.questions = Append(course.questions, question)]

\* a length test that is off by one
CourseLen_offbyone(course) == Len(course.questions) - 1

\* Course.__len__
CourseLen(course) == Len(course.questions)

\* the name of the synthetic course of questions without a category
Uncategorized == <<"B", "e", "z", " ", "k", "a", "t">>

-----------------------------------------------------------------------------
(* The inputs of XMLParser.parse_courses *)

Element(type, category, name, answers, subquestions) ==
    [type |-> type, category |-> category, questiontext |-> Some(<<"x">>),
     referenceanswer |-> None, name |-> name, answers |-> answers,
     subquestions |-> subquestions]

CategoryElement(path) == Element("category", path, None, <<>>, <<>>)

\* the category elements of the modelled files: two course categories (one
\* nested), a path outside the root prefix and the root category itself
CategoryElements ==
    {CategoryElement(Some(CATEGORY_PREFIX \o <<"/", "a">>)),
     CategoryElement(Some(CATEGORY_PREFIX \o <<"/", "a", "/", "b">>)),
     CategoryElement(Some(<<"x", "/", "a">>)),
     CategoryElement(Some(CATEGORY_PREFIX))}

\* the question elements of the modelled files
QuestionElements ==
    {Element("essay", None, Some(<<"q">>), <<>>, <<>>),
     Element("truefalse", None, Some(<<"t">>),
             <<[text |-> <<"t", "r", "u", "e">>, fraction |-> 100],
               [text |-> <<"f", "a", "l", "s", "e">>, fraction |-> 0]>>, <<>>)}

\* str(e) of ET.ParseError as the two regular expressions of the handler see
\* it: the digits after "line " and after "column ", None when absent
ParseErrors ==
    {[line |-> Some("3"), column |-> Some("7")],
     [line |-> Some("3"), column |-> None],
     [line |-> None, column |-> None]}

\* the outcomes of ET.fromstring(cleaned_xml): the element stream of a
\* well-formed document, or a ParseError
WellFormed(es) ==
    [ok |-> TRUE, elements |-> es, error |-> [line |-> None, column |-> None]]
NotWellFormed(e) == [ok |-> FALSE, elements |-> <<>>, error |-> e]

NoResult == [kind |-> "none", value |-> <<>>, line |-> None, column |-> None,
             original |-> FALSE]

NoElement == Element("", None, None, <<>>, <<>>)

Idle ==
    /\ category_element = None
    /\ category_name = None
    /\ question_element = NoElement
    /\ question_data = [type |-> ""]

Init ==
    /\ pc = "start"
    /\ file_exists \in BOOLEAN
    /\ is_valid \in BOOLEAN
    /\ \/ \E k \in 0..MaxElements :
             \E es \in [1..k -> CategoryElements \cup QuestionElements] :
                cleaned_xml = WellFormed(es)
       \/ \E e \in ParseErrors : cleaned_xml = NotWellFormed(e)
    /\ file_exists = FALSE => (is_valid = FALSE /\ cleaned_xml = WellFormed(<<>>))
    /\ all_elements = <<>>
    /\ i = 0
    /\ courses = <<>>
    /\ current_course_name = None
    /\ current_course = None
    /\ last_category_name = None
    /\ result = NoResult
    /\ Idle
    /\ CleanIdle
    /\ TemplateIdle
    /\ EvalIdle
    /\ HeapIdle
    /\ StoreIdle

-----------------------------------------------------------------------------
(* XMLParser.parse_courses *)

\* raise FileNotFoundError
FileMissing ==
    /\ pc = "start"
    /\ ~file_exists
    /\ pc' = "raised"
    /\ result' = [NoResult EXCEPT !.kind = "FileNotFoundError"]
    /\ UNCHANGED <<componentVars, file_exists, is_valid, cleaned_xml, all_elements, i, courses,
                   current_course_name, current_course, last_category_name,
                   category_element, category_name, question_element,
                   question_data>>

\* a handler that swallows the ParseError and goes on with an empty document
ParseFails_swallowed ==
    /\ pc = "start"
    /\ file_exists
    /\ ~cleaned_xml.ok
    /\ pc' = "loop"
    /\ UNCHANGED <<componentVars, file_exists, is_valid, cleaned_xml, all_elements, i, courses,
                   current_course_name, current_course, last_category_name,
                   result, category_element, category_name, question_element,
                   question_data>>

\* ET.fromstring raises ParseError: the handler raises ValueError
ParseFails ==
    /\ pc = "start"
    /\ file_exists
    /\ ~cleaned_xml.ok
    /\ pc' = "raised"
    /\ result' =
         IF ~IsNone(cleaned_xml.error.line)
         THEN [kind |-> "ValueError", value |-> <<>>,
               line |-> cleaned_xml.error.line,
               column |-> IF ~IsNone(cleaned_xml.error.column)
                          THEN cleaned_xml.error.column ELSE Some("?"),
               original |-> ~is_valid]
         ELSE [kind |-> "ValueError", value |-> <<>>, line |-> None,
               column |-> None, original |-> ~is_valid]
    /\ UNCHANGED <<componentVars, file_exists, is_valid, cleaned_xml, all_elements, i, courses,
                   current_course_name, current_course, last_category_name,
                   category_element, category_name, question_element,
                   question_data>>

\* ET.fromstring succeeds: the locals of the grouping loop are set up
ParseOk ==
    /\ pc = "start"
    /\ file_exists
    /\ cleaned_xml.ok
    /\ pc' = "loop"
    /\ courses' = <<>>
    /\ current_course_name' = None
    /\ current_course' = None
    /\ last_category_name' = None
    /\ all_elements' = cleaned_xml.elements
    /\ i' = 0
    /\ UNCHANGED <<componentVars, file_exists, is_valid, cleaned_xml, result, category_element,
                   category_name, question_element, question_data>>

\* a category iteration that opens the course at once, before any question
CategoryStep_eager ==
    /\ pc = "loop"
    /\ i < Len(all_elements)
    /\ LET question_elem == all_elements[i + 1]
           name == _extract_course_name(question_elem.category)
       IN
       /\ question_elem.type = "category"
       /\ IF ~IsNone(name) /\ Val(name) # <<>>
          THEN /\ courses' =
                    IF ~IsNone(current_course)
                    THEN Append(courses, Val(current_course))
                    ELSE courses
               /\ last_category_name' = None
               /\ current_course_name' = name
               /\ current_course' = Some(Course(Val(name)))
          ELSE UNCHANGED <<courses, last_category_name, current_course_name,
                           current_course>>
    /\ i' = i + 1
    /\ UNCHANGED <<componentVars, pc, file_exists, is_valid, cleaned_xml, all_elements, result,
                   category_element, category_name, question_element,
                   question_data>>

\* a category iteration without the test of the extracted name: every
\* category closes the open course
CategoryStep_unguarded ==
    /\ pc = "loop"
    /\ i < Len(all_elements)
    /\ LET question_elem == all_elements[i + 1]
           name == _extract_course_name(question_elem.category)
       IN
       /\ question_elem.type = "category"
       /\ courses' =
            IF ~IsNone(current_course) /\ Len(Val(current_course).questions) > 0
            THEN Append(courses, Val(current_course))
            ELSE courses
       /\ last_category_name' = name
       /\ current_course_name' = None
       /\ current_course' = None
    /\ i' = i + 1
    /\ UNCHANGED <<componentVars, pc, file_exists, is_valid, cleaned_xml, all_elements, result,
                   category_element, category_name, question_element,
                   question_data>>

\* one iteration of the loop on an element of type 'category'
CategoryStep ==
    /\ pc = "loop"
    /\ i < Len(all_elements)
    /\ LET question_elem == all_elements[i + 1]
           name == _extract_course_name(question_elem.category)
       IN
       /\ question_elem.type = "category"
       /\ IF ~IsNone(name) /\ Val(name) # <<>>
          THEN /\ courses' =
                    IF ~IsNone(current_course) /\ CourseLen(Val(current_course)) > 0
                    THEN Append(courses, Val(current_course))
                    ELSE courses
               /\ last_category_name' = name
               /\ current_course_name' = None
               /\ current_course' = None
          ELSE UNCHANGED <<courses, last_category_name, current_course_name,
                           current_course>>
    /\ i' = i + 1
    /\ UNCHANGED <<componentVars, pc, file_exists, is_valid, cleaned_xml, all_elements, result,
                   category_element, category_name, question_element,
                   question_data>>

\* a choice of the course that forgets the pending category
CourseForQuestion_nopending ==
    IF ~IsNone(current_course)
    THEN [name |-> current_course_name,
          course |-> Val(current_course),
          last |-> last_category_name]
    ELSE [name |-> Some(Uncategorized),
          course |-> Course(Uncategorized),
          last |-> None]

\* the course a question is added to: the open one, else a new one named by
\* the pending category, else a new synthetic one
CourseForQuestion ==
    IF ~IsNone(last_category_name) /\ IsNone(current_course)
    THEN [name |-> last_category_name,
          course |-> Course(Val(last_category_name)),
          last |-> None]
    ELSE IF ~IsNone(current_course)
    THEN [name |-> current_course_name,
          course |-> Val(current_course),
          last |-> last_category_name]
    ELSE [name |-> Some(Uncategorized),
          course |-> Course(Uncategorized),
          last |-> last_category_name]

\* one iteration of the loop on any other element
QuestionStep ==
    /\ pc = "loop"
    /\ i < Len(all_elements)
    /\ LET question_elem == all_elements[i + 1]
           question == Question_from_dict(_parse_question_element(question_elem))
                       @@ [elem |-> i + 1]
           target == CourseForQuestion
       IN
       /\ question_elem.type # "category"
       /\ current_course_name' = target.name
       /\ last_category_name' = target.last
       /\ current_course' = Some(add_question(target.course, question))
    /\ i' = i + 1
    /\ UNCHANGED <<componentVars, pc, file_exists, is_valid, cleaned_xml, all_elements, courses,
                   result, category_element, category_name, question_element,
                   question_data>>

\* a return that forgets the course still open
Return_noflush ==
    /\ pc = "loop"
    /\ i >= Len(all_elements)
    /\ result' = [NoResult EXCEPT !.kind = "courses", !.value = courses]
    /\ pc' = "returned"
    /\ UNCHANGED <<componentVars, file_exists, is_valid, cleaned_xml, all_elements, i, courses,
                   current_course_name, current_course, last_category_name,
                   category_element, category_name, question_element,
                   question_data>>

\* the end of the stream: the last course is added and the list returned
Return ==
    /\ pc = "loop"
    /\ i >= Len(all_elements)
    /\ courses' =
         IF ~IsNone(current_course) /\ CourseLen(Val(current_course)) > 0
         THEN Append(courses, Val(current_course))
         ELSE courses
    /\ result' = [NoResult EXCEPT !.kind = "courses", !.value = courses']
    /\ pc' = "returned"
    /\ UNCHANGED <<componentVars, file_exists, is_valid, cleaned_xml, all_elements, i,
                   current_course_name, current_course, last_category_name,
                   category_element, category_name, question_element,
                   question_data>>

\* XMLParser.parse: the questions of all courses, joined
Parse ==
    /\ pc = "returned"
    /\ result' = [NoResult EXCEPT
                    !.kind = "questions",
                    !.value = Concat([k \in 1..Len(courses) |-> courses[k].questions])]
    /\ pc' = "parsed"
    /\ UNCHANGED <<componentVars, file_exists, is_valid, cleaned_xml, all_elements, i, courses,
                   current_course_name, current_course, last_category_name,
                   category_element, category_name, question_element,
                   question_data>>

Next ==
    \/ FileMissing
    \/ ParseFails
    \/ ParseOk
    \/ CategoryStep
    \/ QuestionStep
    \/ Return
    \/ Parse

Spec == Init /\ [][Next]_vars

-----------------------------------------------------------------------------
(* The element stream, as the claims speak of it *)

Positions == 1..Len(all_elements)
IsCategory(k) == all_elements[k].type = "category"
IsQuestion(k) == all_elements[k].type # "category"
\* a category for which a course name is extracted
ValidCategory(k) ==
    IsCategory(k) /\ ~IsNone(_extract_course_name(all_elements[k].category))
IgnoredCategory(k) == IsCategory(k) /\ ~ValidCategory(k)
QuestionPositions == {k \in Positions : IsQuestion(k)}

\* the positions of a set of naturals in increasing order
RECURSIVE Ascending(_)
Ascending(S) ==
    IF S = {} THEN <<>>
    ELSE LET m == CHOOSE x \in S : \A y \in S : x <= y
         IN  <<m>> \o Ascending(S \ {m})

\* the questions of all returned courses, in order
ReturnedQuestions == Concat([c \in 1..Len(courses) |-> courses[c].questions])

\* the valid category nearest before position k, 0 when there is none
CategoryBefore(k) ==
    IF \E j \in 1..(k - 1) : ValidCategory(j)
    THEN CHOOSE j \in 1..(k - 1) :
            ValidCategory(j) /\ \A m \in (j + 1)..(k - 1) : ~ValidCategory(m)
    ELSE 0

\* at least one question precedes the first valid category
QuestionBeforeFirstCategory ==
    \E q \in QuestionPositions : \A j \in 1..(q - 1) : ~ValidCategory(j)

Returned == pc \in {"returned", "parsed"}

-----------------------------------------------------------------------------
(* C1 *)

\* valid categories whose next element is a question
ImmediatelyFollowed ==
    {k \in Positions : ValidCategory(k) /\ k + 1 \in QuestionPositions}

\* valid categories followed by a question with nothing but ignored categories
\* in between
FollowedByQuestion ==
    {k \in Positions :
        /\ ValidCategory(k)
        /\ \E q \in QuestionPositions :
              q > k /\ \A j \in (k + 1)..(q - 1) : IgnoredCategory(j)}

\* C1 as stated: the number of returned courses is the number of valid
\* categories whose next element is a question, plus one iff a question
\* precedes the first valid category.
C1_Original ==
    Returned =>
        Len(courses) = Cardinality(ImmediatelyFollowed)
                       + (IF QuestionBeforeFirstCategory THEN 1 ELSE 0)

\* C1 (amended): the number of returned courses is the number of valid
\* categories that are followed by a question before the next valid category
\* (categories whose name extraction fails in between do not count), plus one
\* iff a question precedes the first valid category.
C1_CourseCount ==
    Returned =>
        Len(courses) = Cardinality(FollowedByQuestion)
                       + (IF QuestionBeforeFirstCategory THEN 1 ELSE 0)

C1_Witness ==
    /\ Returned
    /\ Len(courses) = 2
    /\ QuestionBeforeFirstCategory
    /\ \E k \in FollowedByQuestion : k \notin ImmediatelyFollowed

-----------------------------------------------------------------------------
(* C2 *)

\* C2: after parse_courses returns, every question element of the input is
\* held by exactly one place of exactly one returned course, no course holds
\* anything else, and the number of questions over all courses, which is the
\* length of the list parse returns, is the number of question elements.
C2_Partition ==
    /\ Returned =>
        /\ \A k \in QuestionPositions :
              Cardinality({<<c, j>> \in (1..Len(courses)) \X Positions :
                              /\ j <= Len(courses[c].questions)
                              /\ courses[c].questions[j].elem = k}) = 1
        /\ \A c \in 1..Len(courses) : \A j \in 1..Len(courses[c].questions) :
              courses[c].questions[j].elem \in QuestionPositions
        /\ Len(ReturnedQuestions) = Cardinality(QuestionPositions)
    /\ pc = "parsed" => Len(result.value) = Cardinality(QuestionPositions)

C2_Witness ==
    /\ pc = "parsed"
    /\ Len(courses) >= 2
    /\ Cardinality(QuestionPositions) >= 2
    /\ \E k \in Positions : IgnoredCategory(k)

-----------------------------------------------------------------------------
(* C3 *)

\* the question built from the element at position k
QuestionOf(k) ==
    Question_from_dict(_parse_question_element(all_elements[k])) @@ [elem |-> k]

\* the question elements of the input, in input order
InputQuestions ==
    LET ks == Ascending(QuestionPositions)
    IN  [n \in 1..Len(ks) |-> QuestionOf(ks[n])]

\* C3: the question lists of the returned courses, joined in the order of the
\* courses, are the question elements of the input in input order (so courses
\* are in the order of their first question and each course is in input
\* order), and parse returns that very sequence.
C3_DocumentOrder ==
    /\ Returned => ReturnedQuestions = InputQuestions
    /\ pc = "parsed" => result.value = InputQuestions

C3_Witness ==
    /\ pc = "parsed"
    /\ Len(courses) >= 2
    /\ \E c \in 1..Len(courses) : Len(courses[c].questions) >= 2

-----------------------------------------------------------------------------
(* C4 *)

\* the name the course holding the question of position k must carry
ExpectedCourseName(k) ==
    IF CategoryBefore(k) = 0 THEN Uncategorized
    ELSE Val(_extract_course_name(all_elements[CategoryBefore(k)].category))

\* C4: at the end of the stream the open course is added when it has a
\* question; no returned course is empty; and every returned course is named
\* by the valid category nearest before its first question (or is the
\* synthetic course), so that a category no question follows names no course.
C4_EndOfStream ==
    Returned =>
        /\ (~IsNone(current_course) /\ CourseLen(Val(current_course)) > 0)
              => (courses # <<>> /\ courses[Len(courses)] = Val(current_course))
        /\ \A c \in 1..Len(courses) :
              /\ CourseLen(courses[c]) > 0
              /\ courses[c].name = ExpectedCourseName(courses[c].questions[1].elem)

\* a valid category is still pending at the end and an earlier course was open
C4_Witness ==
    /\ Returned
    /\ ~IsNone(last_category_name)
    /\ Len(courses) >= 1
    /\ \E k \in Positions : ValidCategory(k) /\ k \notin FollowedByQuestion

-----------------------------------------------------------------------------
(* C5 *)

\* the loop is about to process a category whose name extraction fails
AtIgnoredCategory ==
    /\ pc = "loop"
    /\ i < Len(all_elements)
    /\ IgnoredCategory(i + 1)

\* the index of the returned course that holds the question of position k
CourseIndexOf(k) ==
    CHOOSE c \in 1..Len(courses) :
        \E j \in 1..Len(courses[c].questions) : courses[c].questions[j].elem = k

\* C5: the iteration on a category whose name extraction fails leaves the
\* pending category name, the open course and the emitted courses unchanged,
\* and two questions with nothing but such categories between them end up in
\* the same course.
C5_IgnoredCategory ==
    /\ [][AtIgnoredCategory =>
            /\ last_category_name' = last_category_name
            /\ current_course' = current_course
            /\ current_course_name' = current_course_name
            /\ courses' = courses
            /\ i' = i + 1]_vars
    /\ [](Returned =>
            \A q1, q2 \in QuestionPositions :
                (q1 < q2 /\ \A j \in (q1 + 1)..(q2 - 1) : IgnoredCategory(j))
                    => CourseIndexOf(q1) = CourseIndexOf(q2))

\* a question, an ignored category and a question, in one returned course
C5_Witness ==
    /\ Returned
    /\ \E k \in Positions :
          /\ IgnoredCategory(k)
          /\ k - 1 \in QuestionPositions
          /\ k + 1 \in QuestionPositions
          /\ CourseIndexOf(k - 1) = CourseIndexOf(k + 1)
          /\ CategoryBefore(k) # 0

-----------------------------------------------------------------------------
(* C7 *)

\* the cleaned text is not well-formed and parse_courses has acted
ParseFailed == file_exists /\ ~cleaned_xml.ok /\ pc # "start"

\* C7: when the cleaned text is not well-formed, parse_courses ends by
\* raising a ValueError that carries the line found in the parser's message
\* (and the column, or "?" when the message has none); it returns nothing,
\* never enters the grouping loop and builds no course.
C7_ParseError ==
    ParseFailed =>
        /\ pc = "raised"
        /\ result.kind = "ValueError"
        /\ result.value = <<>>
        /\ courses = <<>> /\ IsNone(current_course) /\ i = 0
        /\ all_elements = <<>>
        /\ ~IsNone(cleaned_xml.error.line) =>
              /\ result.line = cleaned_xml.error.line
              /\ result.column = IF IsNone(cleaned_xml.error.column)
                                 THEN Some("?") ELSE cleaned_xml.error.column

C7_Witness ==
    /\ ParseFailed
    /\ result.kind = "ValueError"
    /\ result.line = Some("3")
    /\ result.column = Some("?")

-----------------------------------------------------------------------------
(* XMLParser._extract_course_name, called on its own *)

\* the state of a parser on which parse_courses has not been called
NotParsing ==
    /\ file_exists = TRUE
    /\ is_valid = TRUE
    /\ cleaned_xml = WellFormed(<<>>)
    /\ all_elements = <<>>
    /\ i = 0
    /\ courses = <<>>
    /\ current_course_name = None
    /\ current_course = None
    /\ last_category_name = None
    /\ result = NoResult

\* the characters of the modelled paths after the prefix
PathChars == {"/", " ", "a", "b"}

\* the text before the remainder of a modelled path: optional leading
\* whitespace, then the root prefix, a truncated prefix or a foreign root
PathHeads ==
    {lead \o head :
        lead \in {<<>>, <<" ">>},
        head \in {CATEGORY_PREFIX, SubSeq(CATEGORY_PREFIX, 1, 4), <<"x">>}}

\* the text of category/text is missing, or a head and any remainder
InitExtract ==
    /\ pc = "call_extract"
    /\ \/ category_element = None
       \/ \E head \in PathHeads : \E k \in 0..MaxRest :
             \E rest \in [1..k -> PathChars] :
                category_element = Some(head \o rest)
    /\ category_name = None
    /\ question_element = NoElement
    /\ question_data = [type |-> ""]
    /\ NotParsing
    /\ CleanIdle
    /\ TemplateIdle
    /\ EvalIdle
    /\ HeapIdle
    /\ StoreIdle

ExtractCourseName ==
    /\ pc = "call_extract"
    /\ category_name' = _extract_course_name(category_element)
    /\ pc' = "extracted"
    /\ UNCHANGED <<componentVars, file_exists, is_valid, cleaned_xml, all_elements, i, courses,
                   current_course_name, current_course, last_category_name,
                   result, category_element, question_element, question_data>>

NextExtract == ExtractCourseName

SpecExtract == InitExtract /\ [][NextExtract]_vars

-----------------------------------------------------------------------------
(* C6 *)

\* the category path, trimmed
CategoryPath == strip(Val(category_element))

\* what remains of the path after the root prefix, trimmed
Remainder == strip(SliceFrom(CategoryPath, Len(CATEGORY_PREFIX)))

\* the cases in which the claim says no name is returned
NoNameCase ==
    \/ IsNone(category_element)
    \/ ~startswith(CategoryPath, CATEGORY_PREFIX)
    \/ Remainder = <<>>
    \/ Remainder[1] # "/"
    \/ \A k \in 1..Len(Remainder) : Remainder[k] \in {"/"} \cup Whitespace

\* Remainder[a..b] is the last non-blank segment, trimmed: it holds no '/',
\* starts and ends with a character that is no whitespace, only whitespace
\* lies between it and the '/' before it, and only whitespace and '/' follow
IsLastSegment(a, b) ==
    /\ \A k \in a..b : Remainder[k] # "/"
    /\ Remainder[a] \notin Whitespace
    /\ Remainder[b] \notin Whitespace
    /\ \E s \in 1..(a - 1) :
          /\ Remainder[s] = "/"
          /\ \A k \in (s + 1)..(a - 1) : Remainder[k] \in Whitespace
    /\ \A k \in (b + 1)..Len(Remainder) : Remainder[k] \in {"/"} \cup Whitespace

\* C6: _extract_course_name returns the last non-blank, trimmed segment of
\* what remains of the (trimmed) category path after the root prefix, and
\* None when the text is missing, the path does not start with the prefix, the
\* (trimmed) remainder is empty or does not start with '/', or every segment
\* is blank; it never returns the empty string.
C6_CourseName ==
    pc = "extracted" =>
        /\ category_name # Some(<<>>)
        /\ IF NoNameCase
           THEN IsNone(category_name)
           ELSE \E a \in 1..Len(Remainder) : \E b \in a..Len(Remainder) :
                   /\ IsLastSegment(a, b)
                   /\ category_name = Some(SubSeq(Remainder, a, b))

\* a nested path after leading whitespace: the last segment is returned
C6_Witness ==
    /\ pc = "extracted"
    /\ category_element = Some(<<" ">> \o CATEGORY_PREFIX \o <<"/", "a", "/", "b">>)
    /\ category_name = Some(<<"b">>)

-----------------------------------------------------------------------------
(* XMLParser._parse_question_element, called on its own *)

\* the fraction attributes of the modelled answer elements
Fractions == {-50, 0, 50, 100}

\* answer elements of multichoice and shortanswer questions
ChoiceAnswers ==
    {[text |-> t, fraction |-> f] : t \in {<<>>, <<"a">>, <<"b">>}, f \in Fractions}

\* answer elements of truefalse questions: no text, the two expected values,
\* a value that needs strip() and lower(), an unexpected value and blank text
BooleanAnswers ==
    {[text |-> t, fraction |-> f] :
        t \in {<<>>, <<"t", "r", "u", "e">>, <<"f", "a", "l", "s", "e">>,
               <<"T", "r", "u", "e", " ">>, <<"M", "b">>, <<" ">>},
        f \in Fractions \ {-50}}

\* subquestion elements: the own text node is missing, empty or filled; the
\* nested answer element is missing, without text or filled
Subquestions ==
    {[text |-> t, answer |-> a] :
        t \in {None, Some(<<>>), Some(<<"p">>)},
        a \in {None, Some(<<>>), Some(<<"x">>), Some(<<"y">>)}}

QuestionInput(type, referenceanswer, answers, subquestions) ==
    [type |-> type, category |-> None, questiontext |-> Some(<<"x">>),
     referenceanswer |-> referenceanswer, name |-> Some(<<"q">>),
     answers |-> answers, subquestions |-> subquestions]

ReferenceAnswers == {None, Some(<<"r">>)}

InitQuestion ==
    /\ pc = "call_parse_question"
    /\ \/ \E k \in 0..MaxAnswers : \E as \in [1..k -> ChoiceAnswers] :
             question_element = QuestionInput("multichoice", None, as, <<>>)
       \/ \E k \in 0..MaxAnswers : \E as \in [1..k -> ChoiceAnswers] :
             \E r \in ReferenceAnswers :
                question_element = QuestionInput("shortanswer", r, as, <<>>)
       \/ \E k \in 0..MaxAnswers : \E as \in [1..k -> BooleanAnswers] :
             question_element = QuestionInput("truefalse", None, as, <<>>)
       \/ \E k \in 0..MaxSub : \E ss \in [1..k -> Subquestions] :
             question_element = QuestionInput("matching", None, <<>>, ss)
       \/ \E t \in {"essay", "numerical"} : \E r \in ReferenceAnswers :
             question_element = QuestionInput(t, r, <<>>, <<>>)
    /\ question_data = [type |-> ""]
    /\ category_element = None
    /\ category_name = None
    /\ NotParsing
    /\ CleanIdle
    /\ TemplateIdle
    /\ EvalIdle
    /\ HeapIdle
    /\ StoreIdle

ParseQuestionElement ==
    /\ pc = "call_parse_question"
    /\ question_data' = _parse_question_element(question_element)
    /\ pc' = "question_parsed"
    /\ UNCHANGED <<componentVars, file_exists, is_valid, cleaned_xml, all_elements, i, courses,
                   current_course_name, current_course, last_category_name,
                   result, category_element, category_name, question_element>>

NextQuestion == ParseQuestionElement

SpecQuestion == InitQuestion /\ [][NextQuestion]_vars

\* the Question built from the returned dict
question == Question_from_dict(question_data)

QuestionParsed(types) == pc = "question_parsed" /\ question_element.type \in types

AnswerPositions == 1..Len(question_element.answers)

\* the answer elements that have a text
WithText(k) == question_element.answers[k].text # <<>>

-----------------------------------------------------------------------------
(* C8 *)

CorrectWithinAnswers == Range(question.correct_answers) \subseteq Range(question.answers)

\* C8 as stated: for multichoice and truefalse questions correct_answers is
\* within answers, and it is not empty when some answer element has a
\* positive fraction.
C8_Original ==
    QuestionParsed({"multichoice", "truefalse"}) =>
        /\ CorrectWithinAnswers
        /\ (\E k \in AnswerPositions : question_element.answers[k].fraction > 0)
              => question.correct_answers # <<>>

\* C8 (amended): for multichoice and truefalse questions correct_answers is
\* within answers, and it is not empty when some answer element that has a
\* text has a positive fraction (multichoice) or the fraction 100 (truefalse).
C8_CorrectAnswers ==
    /\ QuestionParsed({"multichoice", "truefalse"}) => CorrectWithinAnswers
    /\ QuestionParsed({"multichoice"}) =>
          ((\E k \in AnswerPositions :
                WithText(k) /\ question_element.answers[k].fraction > 0)
              => question.correct_answers # <<>>)
    /\ QuestionParsed({"truefalse"}) =>
          ((\E k \in AnswerPositions :
                WithText(k) /\ question_element.answers[k].fraction = 100)
              => question.correct_answers # <<>>)

\* a truefalse question whose only positive fraction is below 100, and with
\* a correct normalised answer
C8_Witness ==
    /\ QuestionParsed({"truefalse"})
    /\ \E k \in AnswerPositions : question_element.answers[k].fraction = 50
    /\ question.correct_answers = <<Verno>>
    /\ Len(question.answers) = 2

-----------------------------------------------------------------------------
(* C9 *)

RECURSIVE PairedSubquestions(_)
\* the subquestions that have a prompt (a text of their own) and an answer
\* text, both non-empty, in document order, as item/answer pairs
PairedSubquestions(subs) ==
    IF subs = <<>> THEN <<>>
    ELSE LET sub == subs[1]
             paired == /\ ~IsNone(sub.text) /\ Val(sub.text) # <<>>
                       /\ ~IsNone(sub.answer) /\ Val(sub.answer) # <<>>
         IN (IF paired
             THEN <<[item |-> Val(sub.text), answer |-> Val(sub.answer)]>>
             ELSE <<>>) \o PairedSubquestions(Tail(subs))

\* matching_answers is ascending without duplicates and holds exactly the
\* answers of matching_items
SortedUniqueAnswers ==
    /\ \A k \in 1..(Len(question.matching_answers) - 1) :
          StrLess(question.matching_answers[k], question.matching_answers[k + 1])
    /\ Range(question.matching_answers)
          = {question.matching_items[k].answer :
                k \in 1..Len(question.matching_items)}

\* C9: for a matching question, matching_items holds in document order
\* exactly the subquestions with a non-empty prompt and a non-empty answer
\* text, and matching_answers is ascending, without duplicates and equal as a
\* set to the answers of matching_items.
C9_Matching ==
    QuestionParsed({"matching"}) =>
        /\ question.matching_items = PairedSubquestions(question_element.subquestions)
        /\ SortedUniqueAnswers

\* the part of C9 about matching_answers alone
C9_MatchingAnswers == QuestionParsed({"matching"}) => SortedUniqueAnswers

-----------------------------------------------------------------------------
(* C10 *)

\* the label carried by the answer element at position k
LabelOf(k) == RussianAnswer(lower(strip(question_element.answers[k].text)))

Labels == {LabelOf(k) : k \in {j \in AnswerPositions : WithText(j)}}

OtherLabelSet == Labels \ {Verno, Neverno}

\* the position of the first answer element that carries label l
FirstSeen(l) ==
    CHOOSE k \in AnswerPositions :
        /\ WithText(k) /\ LabelOf(k) = l
        /\ \A j \in 1..(k - 1) : ~(WithText(j) /\ LabelOf(j) = l)

\* the position of x in a sequence that holds it
IndexOf(seq, x) == CHOOSE k \in 1..Len(seq) : seq[k] = x

\* C10: for a truefalse question, answers holds every label once, the true
\* label first and the false label second when present, then the other labels
\* in the order first encountered; and a label is in correct_answers iff an
\* answer element carrying it has the fraction 100.
C10_TrueFalse ==
    QuestionParsed({"truefalse"}) =>
        /\ Range(question.answers) = Labels
        /\ Len(question.answers) = Cardinality(Labels)
        /\ Verno \in Labels => question.answers[1] = Verno
        /\ Neverno \in Labels =>
              question.answers[IF Verno \in Labels THEN 2 ELSE 1] = Neverno
        /\ \A u, v \in OtherLabelSet :
              FirstSeen(u) < FirstSeen(v)
                 => IndexOf(question.answers, u) < IndexOf(question.answers, v)
        /\ \A l \in Labels \cup Range(question.correct_answers) :
              l \in Range(question.correct_answers)
                 <=> \E k \in AnswerPositions :
                        /\ WithText(k) /\ LabelOf(k) = l
                        /\ question_element.answers[k].fraction = 100

\* an unexpected label met first, then false, then a true that needs
\* normalising
C10_Witness ==
    /\ QuestionParsed({"truefalse"})
    /\ question_element.answers =
          <<[text |-> <<"M", "b">>, fraction |-> 100],
            [text |-> <<"f", "a", "l", "s", "e">>, fraction |-> 0],
            [text |-> <<"T", "r", "u", "e", " ">>, fraction |-> 100]>>
    /\ question.answers = <<Verno, Neverno, <<"m", "b">> >>
    /\ question.correct_answers = << <<"m", "b">>, Verno>>

-----------------------------------------------------------------------------
(* C11 *)

\* the texts of a sequence of answer elements
TextsOf(answer_elems) == [k \in 1..Len(answer_elems) |-> answer_elems[k].text]

NonZero(answer_elem) == answer_elem.fraction # 0

HasText(answer_elem) == answer_elem.text # <<>>

NonZeroWithText(answer_elem) == NonZero(answer_elem) /\ HasText(answer_elem)

\* reference_answer is the first correct answer, or empty when there is none
ReferenceIsFirstCorrect ==
    question.reference_answer =
        IF question.correct_answers = <<>> THEN <<>> ELSE question.correct_answers[1]

\* C11 as stated: for a shortanswer question correct_answers holds every
\* answer element whose fraction is not 0, in document order, and
\* reference_answer is its first element or empty.
C11_Original ==
    QuestionParsed({"shortanswer"}) =>
        /\ question.correct_answers
              = TextsOf(SelectSeq(question_element.answers, NonZero))
        /\ ReferenceIsFirstCorrect

\* C11 (amended): for a shortanswer question correct_answers holds, in
\* document order, every answer element that has a non-empty text and a
\* fraction other than 0, and reference_answer is the first element of
\* correct_answers, or empty when correct_answers is empty, whatever the
\* question's own reference-answer node holds.
C11_ShortAnswer ==
    QuestionParsed({"shortanswer"}) =>
        /\ question.correct_answers
              = TextsOf(SelectSeq(question_element.answers, NonZeroWithText))
        /\ ReferenceIsFirstCorrect

\* a reference-answer node is overridden by the first correct answer, which
\* has a negative fraction and follows a correct answer without text
C11_Witness ==
    /\ QuestionParsed({"shortanswer"})
    /\ question_element.referenceanswer = Some(<<"r">>)
    /\ question_element.answers =
          <<[text |-> <<>>, fraction |-> 100],
            [text |-> <<"a">>, fraction |-> -50],
            [text |-> <<"b">>, fraction |-> 0]>>
    /\ question.correct_answers = << <<"a">> >>
    /\ question.reference_answer = <<"a">>

-----------------------------------------------------------------------------
(* C12 *)

\* C12 as stated: for a multichoice question answers holds every answer
\* element in document order and correct_answers those of them whose
\* fraction is not 0.
C12_Original ==
    QuestionParsed({"multichoice"}) =>
        /\ question.answers = TextsOf(question_element.answers)
        /\ question.correct_answers
              = TextsOf(SelectSeq(question_element.answers, NonZero))

\* C12 (amended): for a multichoice question answers holds, in document
\* order, every answer element that has a non-empty text, and correct_answers
\* holds, in the same order, those of them whose fraction is not 0, negative
\* fractions included.
C12_Multichoice ==
    QuestionParsed({"multichoice"}) =>
        /\ question.answers
              = TextsOf(SelectSeq(question_element.answers, HasText))
        /\ question.correct_answers
              = TextsOf(SelectSeq(question_element.answers, NonZeroWithText))

\* a negative fraction counts as correct, an answer without text is skipped
C12_Witness ==
    /\ QuestionParsed({"multichoice"})
    /\ question_element.answers =
          <<[text |-> <<"a">>, fraction |-> -50],
            [text |-> <<>>, fraction |-> 100],
            [text |-> <<"b">>, fraction |-> 0]>>
    /\ question.answers = << <<"a">>, <<"b">> >>
    /\ question.correct_answers = << <<"a">> >>

-----------------------------------------------------------------------------
(* file_utils.escape_xml_text and file_utils.clean_xml_file *)

\* most fragments of a document given to clean_xml_file
MaxChunks == 5
\* most tokens of the content of a CDATA segment
MaxTokens == 3

RECURSIVE replace(_, _, _)
\* str.replace(old, new) for a one-character old
replace(text, old, new) ==
    IF text = <<>> THEN <<>>
    ELSE (IF text[1] = old THEN new ELSE <<text[1]>>)
         \o replace(Tail(text), old, new)

\* an escaping that handles the ampersand last
escape_xml_text_amplast(text) ==
    IF text = <<>> THEN text
    ELSE LET text1 == replace(text, "<", <<"&", "l", "t", ";">>)
             text2 == replace(text1, ">", <<"&", "g", "t", ";">>)
             text3 == replace(text2, "\"", <<"&", "q", "u", "o", "t", ";">>)
             text4 == replace(text3, "'", <<"&", "a", "p", "o", "s", ";">>)
         IN replace(text4, "&", <<"&", "a", "m", "p", ";">>)

\* escape_xml_text
escape_xml_text(text) ==
    IF text = <<>> THEN text
    ELSE LET text1 == replace(text, "&", <<"&", "a", "m", "p", ";">>)
             text2 == replace(text1, "<", <<"&", "l", "t", ";">>)
             text3 == replace(text2, ">", <<"&", "g", "t", ";">>)
             text4 == replace(text3, "\"", <<"&", "q", "u", "o", "t", ";">>)
         IN replace(text4, "'", <<"&", "a", "p", "o", "s", ";">>)

\* pattern occurs in text at position k
LiteralAt(text, pattern, k) ==
    /\ k + Len(pattern) - 1 <= Len(text)
    /\ \A j \in 1..Len(pattern) : text[k + j - 1] = pattern[j]

\* pattern occurs in text at position k, the case of letters ignored
\* (re.IGNORECASE)
LiteralAtIgnoreCase(text, pattern, k) ==
    /\ k + Len(pattern) - 1 <= Len(text)
    /\ \A j \in 1..Len(pattern) : LowerOf(text[k + j - 1]) = LowerOf(pattern[j])

\* the least position of a set of positions, 0 when the set is empty
FirstOf(positions) ==
    IF positions = {} THEN 0
    ELSE CHOOSE k \in positions : \A j \in positions : k <= j

\* the first position from k on where pattern occurs in text, 0 when there
\* is none
find(text, pattern, k) ==
    FirstOf({j \in k..Len(text) : LiteralAt(text, pattern, j)})

\* find, the case of letters ignored
FindIgnoreCase(text, pattern, k) ==
    FirstOf({j \in k..Len(text) :
                text[j] = pattern[1] /\ LiteralAtIgnoreCase(text, pattern, j)})

RECURSIVE SubOpeningTag(_, _, _)
\* re.sub(r'<name[^>]*>', '', content, flags=re.IGNORECASE) from position k
\* on: a match starts at '<name' and ends at the first '>' after it.
\* r'<br[^>]*/?>' matches the same texts as r'<br[^>]*>'
SubOpeningTag(content, name, k) ==
    LET start == FindIgnoreCase(content, <<"<">> \o name, k)
        end == IF start = 0 THEN 0
               ELSE find(content, <<">">>, start + Len(name) + 1)
    IN IF end = 0 THEN SubSeq(content, k, Len(content))
       ELSE SubSeq(content, k, start - 1) \o SubOpeningTag(content, name, end + 1)

RECURSIVE SubClosingTag(_, _, _)
\* re.sub(r'</name>', '', content, flags=re.IGNORECASE) from position k on
SubClosingTag(content, name, k) ==
    LET start == FindIgnoreCase(content, <<"<", "/">> \o name \o <<">">>, k)
    IN IF start = 0 THEN SubSeq(content, k, Len(content))
       ELSE SubSeq(content, k, start - 1)
            \o SubClosingTag(content, name, start + Len(name) + 3)

OpeningTag(name) == [closing |-> FALSE, name |-> name]
ClosingTag(name) == [closing |-> TRUE, name |-> name]

\* the patterns of html_tags, in the order of the list
html_tags ==
    <<OpeningTag(<<"p">>), ClosingTag(<<"p">>),
      OpeningTag(<<"b", "r">>),
      OpeningTag(<<"d", "i", "v">>), ClosingTag(<<"d", "i", "v">>),
      OpeningTag(<<"s", "p", "a", "n">>), ClosingTag(<<"s", "p", "a", "n">>),
      OpeningTag(<<"s", "t", "r", "o", "n", "g">>), ClosingTag(<<"s", "t", "r", "o", "n", "g">>),
      OpeningTag(<<"b">>), ClosingTag(<<"b">>),
      OpeningTag(<<"e", "m">>), ClosingTag(<<"e", "m">>),
      OpeningTag(<<"i">>), ClosingTag(<<"i">>),
      OpeningTag(<<"u">>), ClosingTag(<<"u">>),
      OpeningTag(<<"u", "l">>), ClosingTag(<<"u", "l">>),
      OpeningTag(<<"o", "l">>), ClosingTag(<<"o", "l">>),
      OpeningTag(<<"l", "i">>), ClosingTag(<<"l", "i">>),
      OpeningTag(<<"t", "a", "b", "l", "e">>), ClosingTag(<<"t", "a", "b", "l", "e">>),
      OpeningTag(<<"t", "r">>), ClosingTag(<<"t", "r">>),
      OpeningTag(<<"t", "d">>), ClosingTag(<<"t", "d">>),
      OpeningTag(<<"t", "h">>), ClosingTag(<<"t", "h">>)>>

RECURSIVE SubTags(_, _)
\* for tag_pattern in html_tags: content = re.sub(tag_pattern, '', content)
\* (an empty content stays empty under every pattern)
SubTags(content, tag_patterns) ==
    IF tag_patterns = <<>> \/ content = <<>> THEN content
    ELSE LET tag_pattern == tag_patterns[1] IN
         SubTags(IF tag_pattern.closing
                 THEN SubClosingTag(content, tag_pattern.name, 1)
                 ELSE SubOpeningTag(content, tag_pattern.name, 1),
                 Tail(tag_patterns))

\* re.sub(r'\s+', ' ', content): of every run of whitespace only the first
\* character stays, as a space
SubWhitespace(content) ==
    LET RunStart(k) == k = 1 \/ content[k - 1] \notin Whitespace
        kept == {k \in 1..Len(content) : content[k] \notin Whitespace \/ RunStart(k)}
        Nth(n) == CHOOSE k \in kept : Cardinality({j \in kept : j <= k}) = n
    IN [n \in 1..Cardinality(kept) |->
           IF content[Nth(n)] \in Whitespace THEN " " ELSE content[Nth(n)]]

\* replace_cdata up to, and without, the escaping
StrippedContent(content) == strip(SubWhitespace(SubTags(content, html_tags)))

\* clean_xml_file.replace_cdata, on the content match.group(1)
replace_cdata(content) == escape_xml_text(StrippedContent(content))

CDATA_OPEN == <<"<", "!", "[", "C", "D", "A", "T", "A", "[">>
CDATA_CLOSE == <<"]", "]", ">">>

RECURSIVE SubCdata(_, _)
\* re.sub(cdata_pattern, replace_cdata, xml_content, flags=re.DOTALL) from
\* position k on: a match starts at '<![CDATA[' and ends with the first ']]>'
\* after it
SubCdata(xml_content_, k) ==
    LET start == find(xml_content_, CDATA_OPEN, k)
        end == IF start = 0 THEN 0
               ELSE find(xml_content_, CDATA_CLOSE, start + Len(CDATA_OPEN))
    IN IF end = 0 THEN SubSeq(xml_content_, k, Len(xml_content_))
       ELSE SubSeq(xml_content_, k, start - 1)
            \o replace_cdata(SubSeq(xml_content_, start + Len(CDATA_OPEN), end - 1))
            \o SubCdata(xml_content_, end + Len(CDATA_CLOSE))

\* clean_xml_file
clean_xml_file(xml_content_) ==
    IF xml_content_ = <<>> THEN xml_content_ ELSE SubCdata(xml_content_, 1)

\* the parser is idle
ParserIdle ==
    /\ NotParsing
    /\ Idle

\* the fragments documents are made of: the two delimiters of a CDATA
\* segment, an opening delimiter that lacks its last character, that
\* character, and a tag
Fragments ==
    {CDATA_OPEN, CDATA_CLOSE, SubSeq(CDATA_OPEN, 1, Len(CDATA_OPEN) - 1), <<"[">>,
     <<"<", "p", ">">>}

InitClean ==
    /\ pc = "call_clean"
    /\ \E k \in 0..MaxChunks : \E fs \in [1..k -> Fragments] :
          xml_content = Concat(fs)
    /\ cleaned = None
    /\ recleaned = None
    /\ ParserIdle
    /\ TemplateIdle
    /\ EvalIdle
    /\ HeapIdle
    /\ StoreIdle

\* cleaned = clean_xml_file(xml_content)
Clean ==
    /\ pc = "call_clean"
    /\ cleaned' = Some(clean_xml_file(xml_content))
    /\ pc' = "cleaned"
    /\ UNCHANGED <<parserVars, templateVars, evalVars, heapVars, storeVars, xml_content, recleaned>>

\* recleaned = clean_xml_file(cleaned)
CleanAgain ==
    /\ pc = "cleaned"
    /\ recleaned' = Some(clean_xml_file(Val(cleaned)))
    /\ pc' = "recleaned"
    /\ UNCHANGED <<parserVars, templateVars, evalVars, heapVars, storeVars, xml_content, cleaned>>

NextClean == Clean \/ CleanAgain

SpecClean == InitClean /\ [][NextClean]_vars

-----------------------------------------------------------------------------
(* C13 *)

\* C13: clean_xml_file is idempotent: cleaning the output of a pass again
\* returns it unchanged.
C13_Idempotent ==
    pc = "recleaned" => Val(recleaned) = Val(cleaned)

-----------------------------------------------------------------------------
(* clean_xml_file on documents with a CDATA segment of reserved characters,
   text and tags *)

\* the tokens the content of the CDATA segment is made of: the five reserved
\* characters, a space, a letter, a tag of the list in both forms, a tag
\* whose name starts like one of the list, and a tag unlike any of the list
Tokens ==
    {<<"&">>, <<"<">>, <<">">>, <<"\"">>, <<"'">>, <<" ">>, <<"a">>,
     <<"<", "p", ">">>, <<"<", "/", "P", ">">>, <<"<", "p", "r", "e", ">">>, <<"<", "q", ">">>}

\* what a document has around the segment: nothing, an element, or another
\* CDATA segment and a reference
Envelopes ==
    {[before |-> <<>>, after |-> <<>>],
     [before |-> <<"<", "t", ">">>, after |-> <<"&", "<", "/", "t", ">">>],
     [before |-> CDATA_OPEN \o <<"<">> \o CDATA_CLOSE \o <<"&">>, after |-> <<>>]}

InitCdata ==
    /\ pc = "call_clean"
    /\ \E envelope \in Envelopes :
          \E k \in 0..MaxTokens : \E ts \in [1..k -> Tokens] :
             xml_content = envelope.before \o CDATA_OPEN \o Concat(ts)
                              \o CDATA_CLOSE \o envelope.after
    /\ cleaned = None
    /\ recleaned = None
    /\ ParserIdle
    /\ TemplateIdle
    /\ EvalIdle
    /\ HeapIdle
    /\ StoreIdle

SpecCdata == InitCdata /\ [][NextClean]_vars

RECURSIVE CdataSegments(_, _)
\* the CDATA segments of a text from position k on, left to right: each
\* [start |-> position of its '<![CDATA[', end |-> position of its ']]>']
CdataSegments(text, k) ==
    LET start == find(text, CDATA_OPEN, k)
        end == IF start = 0 THEN 0
               ELSE find(text, CDATA_CLOSE, start + Len(CDATA_OPEN))
    IN IF end = 0 THEN <<>>
       ELSE <<[start |-> start, end |-> end]>>
            \o CdataSegments(text, end + Len(CDATA_CLOSE))

\* what a segment wraps
ContentOf(text, segment) ==
    SubSeq(text, segment.start + Len(CDATA_OPEN), segment.end - 1)

Entities == {<<"&", "a", "m", "p", ";">>, <<"&", "l", "t", ";">>, <<"&", "g", "t", ";">>, <<"&", "q", "u", "o", "t", ";">>, <<"&", "a", "p", "o", "s", ";">>}

\* the one entity of a reserved character; any other character stands for
\* itself
EntityOf(c) ==
    CASE c = "&" -> <<"&", "a", "m", "p", ";">>
      [] c = "<" -> <<"&", "l", "t", ";">>
      [] c = ">" -> <<"&", "g", "t", ";">>
      [] c = "\"" -> <<"&", "q", "u", "o", "t", ";">>
      [] c = "'" -> <<"&", "a", "p", "o", "s", ";">>
      [] OTHER -> <<c>>

\* a text with every character replaced by its entity, once
EntityText(text) == Concat([k \in 1..Len(text) |-> EntityOf(text[k])])

RECURSIVE Splice(_, _, _, _)
\* text from position k on, with the segments from the n-th on replaced by
\* the entity text of what is left of their content after tag stripping, and
\* everything else as it is
Splice(text, segments, n, k) ==
    IF n > Len(segments) THEN SubSeq(text, k, Len(text))
    ELSE SubSeq(text, k, segments[n].start - 1)
         \o EntityText(StrippedContent(ContentOf(text, segments[n])))
         \o Splice(text, segments, n + 1, segments[n].end + Len(CDATA_CLOSE))

NoRawCharacter(text) ==
    \A k \in 1..Len(text) : text[k] \notin {"<", ">", "\"", "'"}

AmpersandsStartEntities(text) ==
    \A k \in 1..Len(text) :
        text[k] = "&" => \E entity \in Entities : LiteralAt(text, entity, k)

-----------------------------------------------------------------------------
(* C14 *)

\* C14: the output of clean_xml_file is the input with every CDATA segment
\* replaced and everything outside the segments unchanged; the text that
\* replaces a segment is what is left of its content after tag stripping with
\* each reserved character turned into exactly one entity (no entity is
\* escaped again), so it has none of the raw characters < > " ' and each of
\* its & starts one of the five entities.
C14_Escaped ==
    pc = "cleaned" =>
        LET segments == CdataSegments(xml_content, 1) IN
        /\ Val(cleaned) = Splice(xml_content, segments, 1, 1)
        /\ \A n \in 1..Len(segments) :
              LET replacement == replace_cdata(ContentOf(xml_content, segments[n])) IN
              /\ NoRawCharacter(replacement)
              /\ AmpersandsStartEntities(replacement)
              /\ replacement
                    = EntityText(StrippedContent(ContentOf(xml_content, segments[n])))

\* an ampersand, a stripped tag and a quote inside the segment, raw markup
\* and a raw ampersand outside it
C14_Witness ==
    /\ pc = "cleaned"
    /\ xml_content = <<"<", "t", ">">> \o CDATA_OPEN \o <<"&", "<", "p", ">", "\"">> \o CDATA_CLOSE \o <<"&", "<", "/", "t", ">">>
    /\ cleaned = Some(<<"<", "t", ">", "&", "a", "m", "p", ";", "&", "q", "u", "o", "t", ";", "&", "<", "/", "t", ">">>)

-----------------------------------------------------------------------------
(* C15 *)

\* the names of the tags of html_tags
WhitelistNames == {html_tags[n].name : n \in 1..Len(html_tags)}

\* the letters of the modelled tag names
Letters == {"a", "e", "p", "q", "r", "t", "P"}

\* content[a..b] is a tag: '<' ... '>' with neither character in between
IsTag(content, a, b) ==
    /\ a < b
    /\ content[a] = "<"
    /\ content[b] = ">"
    /\ \A k \in (a + 1)..(b - 1) : content[k] \notin {"<", ">"}

\* the name of the tag content[a..b], in lower case: the letters after '<'
\* or '</'
TagName(content, a, b) ==
    LET first == IF content[a + 1] = "/" THEN a + 2 ELSE a + 1
        last == CHOOSE e \in (first - 1)..(b - 1) :
                    /\ \A k \in first..e : content[k] \in Letters
                    /\ content[e + 1] \notin Letters
    IN lower(SubSeq(content, first, last))

\* text holds part somewhere
Contains(text, part) == find(text, part, 1) # 0

\* C15: inside a CDATA segment only the tags of the list are stripped: every
\* tag whose name is not in the list is still in the output, escaped.
C15_Whitelist ==
    pc = "cleaned" =>
        \A n \in 1..Len(CdataSegments(xml_content, 1)) :
            LET content == ContentOf(xml_content, CdataSegments(xml_content, 1)[n]) IN
            \A a \in 1..Len(content) : \A b \in 1..Len(content) :
                (IsTag(content, a, b) /\ TagName(content, a, b) \notin WhitelistNames)
                    => Contains(Val(cleaned), EntityText(SubSeq(content, a, b)))

-----------------------------------------------------------------------------
(* Python values of the template engine *)

\* A configuration, a question and the metadata are JSON-like Python values.
\* A value is the record [type |-> the name of its Python type, value |-> v]:
\*   NoneType  v is <<>>
\*   int       v is the integer
\*   float     v is the number in tenths
\*   str       v is the sequence of its characters
\*   list      v is the sequence of its values
\*   dict      v is the record of its values by key
\* The modelled values are those on which the engine does not raise: a kind
\* or a source is hashable (no list, no dict) and cols has a length.
PyNone == [type |-> "NoneType", value |-> <<>>]
PyInt(n) == [type |-> "int", value |-> n]
PyFloat(tenths) == [type |-> "float", value |-> tenths]
PyStr(chars) == [type |-> "str", value |-> chars]
PyList(values) == [type |-> "list", value |-> values]
PyDict(values) == [type |-> "dict", value |-> values]

\* {}
EmptyDict == PyDict(<<>>)

\* isinstance(v, types)
isinstance(v, types) == v.type \in types

\* bool(v)
bool(v) ==
    CASE v.type = "NoneType" -> FALSE
      [] v.type \in {"int", "float"} -> v.value # 0
      [] v.type \in {"str", "list"} -> v.value # <<>>
      [] v.type = "dict" -> DOMAIN v.value # {}

\* len(v) of a str, a list or a dict
len(v) == IF v.type = "dict" THEN Cardinality(DOMAIN v.value) ELSE Len(v.value)

\* int(v) of an int or a float: truncation towards zero
int(v) ==
    IF v.type = "int" THEN v.value
    ELSE IF v.value >= 0 THEN v.value \div 10 ELSE -((-v.value) \div 10)

\* v == n for an integer n
EqualsInt(v, n) ==
    \/ v.type = "int" /\ v.value = n
    \/ v.type = "float" /\ v.value = 10 * n

\* v == s, and v in strings, for str literals
EqualsStr(v, s) == v.type = "str" /\ v.value = s
InStrings(v, strings) == v.type = "str" /\ v.value \in strings

\* d[key] = v on a copy of the dict d
DictSet(d, key, v) ==
    PyDict([k \in DOMAIN d.value \cup {key} |-> IF k = key THEN v ELSE d.value[k]])

-----------------------------------------------------------------------------
(* template_engine.validator *)

\* the only version of the schema
SchemaVersion == 2
\* the height of a spacer without mm, and the largest height
DefaultMm == 4
MaxMm == 50

LINE == <<"l", "i", "n", "e">>
LIST == <<"l", "i", "s", "t">>
TABLE == <<"t", "a", "b", "l", "e">>
SPACER == <<"s", "p", "a", "c", "e", "r">>
KINDS == {LINE, LIST, TABLE, SPACER}

ANSWERS_ALL == <<"a", "n", "s", "w", "e", "r", "s", "_", "a", "l", "l">>
ANSWERS_CORRECT == <<"a", "n", "s", "w", "e", "r", "s", "_", "c", "o", "r", "r", "e", "c", "t">>
MATCHING_PAIRS == <<"m", "a", "t", "c", "h", "i", "n", "g", "_", "p", "a", "i", "r", "s">>
SOURCES == {ANSWERS_ALL, ANSWERS_CORRECT, MATCHING_PAIRS}

\* An error is [block |-> Optional index, text |-> the message after the
\* path of the block, arg |-> Optional value formatted into the message]:
\* f"blocks[{i}]{text}{arg}" for a block, text alone for the configuration.
ConfigError(text) == [block |-> None, text |-> text, arg |-> None]
BlockError(idx, text) == [block |-> Some(idx), text |-> text, arg |-> None]
KindError(idx, kind) == [block |-> Some(idx), text |-> ".kind invalid: ", arg |-> Some(kind)]

\* not isinstance(b.get("pattern"), str) or not b["pattern"].strip()
PatternMissing(b) ==
    LET pattern == Get(b.value, "pattern", PyNone) IN
    ~isinstance(pattern, {"str"}) \/ strip(pattern.value) = <<>>

\* all(isinstance(c, str) and c.strip() for c in cols)
AllNonBlankStrings(cols) ==
    \A k \in 1..Len(cols) :
        isinstance(cols[k], {"str"}) /\ strip(cols[k].value) # <<>>

\* the cols check of a table block
ColsErrors(cols, idx) ==
    IF ~isinstance(cols, {"list"}) \/ ~bool(cols)
    THEN <<BlockError(idx, ".cols must be a non-empty list")>>
    ELSE IF ~AllNonBlankStrings(cols.value)
         THEN <<BlockError(idx, ".cols must contain non-empty strings")>>
         ELSE <<>>

\* a headers check that takes any list
HeadersErrors_anylength(headers, cols, idx) ==
    IF ~isinstance(headers, {"NoneType"}) /\ ~isinstance(headers, {"list"})
    THEN <<BlockError(idx, ".headers must match cols length")>>
    ELSE <<>>

\* the headers check of a table block
HeadersErrors(headers, cols, idx) ==
    IF ~isinstance(headers, {"NoneType"})
       /\ (~isinstance(headers, {"list"}) \/ (bool(cols) /\ len(headers) # len(cols)))
    THEN <<BlockError(idx, ".headers must match cols length")>>
    ELSE <<>>

\* the col_widths_pct check of a table block
WidthsErrors(widths, idx) ==
    IF ~isinstance(widths, {"NoneType"})
       /\ (~isinstance(widths, {"list"})
           \/ ~(\A k \in 1..Len(widths.value) : isinstance(widths.value[k], {"int"})))
    THEN <<BlockError(idx, ".col_widths_pct must be list[int]")>>
    ELSE <<>>

\* the source check of a list or table block
SourceErrors(b, idx) ==
    IF ~InStrings(Get(b.value, "source", PyNone), SOURCES)
    THEN <<BlockError(idx, ".source invalid")>>
    ELSE <<>>

\* the body of the loop over blocks: the errors of blocks[idx]
BlockErrors(b, idx) ==
    IF ~isinstance(b, {"dict"}) THEN <<BlockError(idx, " must be an object")>>
    ELSE LET kind == Get(b.value, "kind", PyNone) IN
    IF ~InStrings(kind, KINDS) THEN <<KindError(idx, kind)>>
    ELSE IF kind.value = LINE THEN
        IF PatternMissing(b) THEN <<BlockError(idx, ".pattern is required")>> ELSE <<>>
    ELSE IF kind.value = SPACER THEN
        LET mm == Get(b.value, "mm", PyInt(DefaultMm)) IN
        IF ~isinstance(mm, {"int"}) \/ mm.value < 0 \/ mm.value > MaxMm
        THEN <<BlockError(idx, ".mm must be int 0..50")>>
        ELSE <<>>
    ELSE IF kind.value = LIST THEN
        SourceErrors(b, idx)
        \o (IF PatternMissing(b) THEN <<BlockError(idx, ".pattern is required")>> ELSE <<>>)
    ELSE
        LET cols == Get(b.value, "cols", PyNone) IN
        SourceErrors(b, idx)
        \o ColsErrors(cols, idx)
        \o HeadersErrors(Get(b.value, "headers", PyNone), cols, idx)
        \o WidthsErrors(Get(b.value, "col_widths_pct", PyNone), idx)

RECURSIVE BlocksErrors_first(_, _)
\* a loop over blocks that stops at the first block with errors
BlocksErrors_first(blocks, k) ==
    IF k > Len(blocks) THEN <<>>
    ELSE IF BlockErrors(blocks[k], k - 1) # <<>> THEN BlockErrors(blocks[k], k - 1)
    ELSE BlocksErrors_first(blocks, k + 1)

RECURSIVE BlocksErrors(_, _)
\* for i, b in enumerate(blocks): the errors of the blocks from the k-th on
BlocksErrors(blocks, k) ==
    IF k > Len(blocks) THEN <<>>
    ELSE BlockErrors(blocks[k], k - 1) \o BlocksErrors(blocks, k + 1)

\* validate_template_config_v2
validate_template_config_v2(cfg) ==
    IF ~isinstance(cfg, {"dict"}) THEN <<ConfigError("config is not an object")>>
    ELSE
    LET version_errors ==
            IF ~EqualsInt(Get(cfg.value, "version", PyNone), SchemaVersion)
            THEN <<ConfigError("config.version must be 2")>>
            ELSE <<>>
        styles == Get(cfg.value, "styles", EmptyDict)
        styles_errors ==
            IF ~isinstance(styles, {"NoneType"}) /\ ~isinstance(styles, {"dict"})
            THEN <<ConfigError("config.styles must be an object")>>
            ELSE <<>>
        blocks == Get(cfg.value, "blocks", PyNone)
    IN
    IF ~isinstance(blocks, {"list"}) \/ ~bool(blocks)
    THEN version_errors \o styles_errors
         \o <<ConfigError("config.blocks must be a non-empty list")>>
    ELSE version_errors \o styles_errors \o BlocksErrors(blocks.value, 1)

-----------------------------------------------------------------------------
(* template_engine.presets *)

\* The Cyrillic texts of the presets are transliterated.

\* the question types with a preset of their own
KnownTypes == {"essay_gigachat", "shortanswer", "multichoice", "matching", "truefalse"}

\* preset_table_default
preset_table_default(question_type_) ==
    IF question_type_ = "matching" THEN
        PyDict([
            version |-> PyInt(SchemaVersion),
            styles |-> PyDict([
                header_color |-> PyStr(<<"#", "C", "0", "0", "0", "0", "0">>),
                title_size |-> PyInt(22),
                header_size |-> PyInt(16),
                body_size |-> PyInt(14),
                answer_size |-> PyInt(12)]),
            blocks |-> PyList(<<
                PyDict([
                    kind |-> PyStr(LINE),
                    pattern |-> PyStr(<<"{", "{", "t", "a", "s", "k", ".", "h", "e", "a", "d", "e", "r", "}", "}">>)]),
                PyDict([
                    kind |-> PyStr(LINE),
                    pattern |-> PyStr(<<"{", "{", "q", "u", "e", "s", "t", "i", "o", "n", ".", "q", "u", "e", "s", "t", "i", "o", "n", "_", "t", "e", "x", "t", "}", "}">>)]),
                PyDict([kind |-> PyStr(SPACER), mm |-> PyInt(2)]),
                PyDict([
                    kind |-> PyStr(TABLE),
                    source |-> PyStr(MATCHING_PAIRS),
                    headers |-> PyList(<<
                        PyStr(<<"N", "o">>),
                        PyStr(<<>>),
                        PyStr(<<"E", "l", "e", "m", "e", "n", "t">>),
                        PyStr(<<"P", "r", "a", "v", "i", "l", "n", "y", "j", " ", "o", "t", "v", "e", "t">>)>>),
                    cols |-> PyList(<<
                        PyStr(<<>>),
                        PyStr(<<>>),
                        PyStr(<<"{", "{", "i", "t", "e", "m", ".", "i", "t", "e", "m", "}", "}">>),
                        PyStr(<<"{", "{", "i", "t", "e", "m", ".", "a", "n", "s", "w", "e", "r", "}", "}">>)>>),
                    col_widths_pct |-> PyList(<<PyInt(10), PyInt(25), PyInt(35), PyInt(30)>>)])>>)])
    ELSE IF question_type_ \in {"multichoice", "truefalse"} THEN
        PyDict([
            version |-> PyInt(SchemaVersion),
            styles |-> PyDict([
                header_color |-> PyStr(<<"#", "C", "0", "0", "0", "0", "0">>),
                title_size |-> PyInt(22),
                header_size |-> PyInt(16),
                body_size |-> PyInt(14),
                answer_size |-> PyInt(12)]),
            blocks |-> PyList(<<
                PyDict([
                    kind |-> PyStr(LINE),
                    pattern |-> PyStr(<<"{", "{", "t", "a", "s", "k", ".", "h", "e", "a", "d", "e", "r", "}", "}">>)]),
                PyDict([
                    kind |-> PyStr(LINE),
                    pattern |-> PyStr(<<"{", "{", "q", "u", "e", "s", "t", "i", "o", "n", ".", "q", "u", "e", "s", "t", "i", "o", "n", "_", "t", "e", "x", "t", "}", "}">>)]),
                PyDict([kind |-> PyStr(SPACER), mm |-> PyInt(2)]),
                PyDict([
                    kind |-> PyStr(TABLE),
                    source |-> PyStr(ANSWERS_ALL),
                    headers |-> PyList(<<
                        PyStr(<<"N", "o">>),
                        PyStr(<<"V", "a", "r", "i", "a", "n", "t", "y", " ", "o", "t", "v", "e", "t", "a">>),
                        PyStr(<<"P", "r", "a", "v", "i", "l", "n", "y", "j", " ", "o", "t", "v", "e", "t">>)>>),
                    cols |-> PyList(<<
                        PyStr(<<>>),
                        PyStr(<<"{", "{", "i", "t", "e", "m", "}", "}">>),
                        PyStr(<<"{", "{", "i", "t", "e", "m", "|", "i", "f", "_", "c", "o", "r", "r", "e", "c", "t", "}", "}">>)>>),
                    col_widths_pct |-> PyList(<<PyInt(10), PyInt(45), PyInt(45)>>)])>>)])
    ELSE IF question_type_ = "shortanswer" THEN
        PyDict([
            version |-> PyInt(SchemaVersion),
            styles |-> PyDict([
                header_color |-> PyStr(<<"#", "C", "0", "0", "0", "0", "0">>),
                title_size |-> PyInt(22),
                header_size |-> PyInt(16),
                body_size |-> PyInt(14),
                answer_size |-> PyInt(12)]),
            blocks |-> PyList(<<
                PyDict([
                    kind |-> PyStr(LINE),
                    pattern |-> PyStr(<<"{", "{", "t", "a", "s", "k", ".", "h", "e", "a", "d", "e", "r", "}", "}">>)]),
                PyDict([
                    kind |-> PyStr(LINE),
                    pattern |-> PyStr(<<"{", "{", "q", "u", "e", "s", "t", "i", "o", "n", ".", "q", "u", "e", "s", "t", "i", "o", "n", "_", "t", "e", "x", "t", "}", "}">>)]),
                PyDict([kind |-> PyStr(SPACER), mm |-> PyInt(2)]),
                PyDict([
                    kind |-> PyStr(TABLE),
                    source |-> PyStr(ANSWERS_CORRECT),
                    headers |-> PyList(<<
                        PyStr(<<"N", "o">>),
                        PyStr(<<>>),
                        PyStr(<<"O", "t", "v", "e", "t">>)>>),
                    cols |-> PyList(<<
                        PyStr(<<>>),
                        PyStr(<<>>),
                        PyStr(<<"{", "{", "i", "t", "e", "m", "}", "}">>)>>),
                    col_widths_pct |-> PyList(<<PyInt(10), PyInt(10), PyInt(80)>>)])>>)])
    ELSE
        PyDict([
            version |-> PyInt(SchemaVersion),
            styles |-> PyDict([
                header_color |-> PyStr(<<"#", "C", "0", "0", "0", "0", "0">>),
                title_size |-> PyInt(22),
                header_size |-> PyInt(16),
                body_size |-> PyInt(14),
                answer_size |-> PyInt(12)]),
            blocks |-> PyList(<<
                PyDict([
                    kind |-> PyStr(LINE),
                    pattern |-> PyStr(<<"{", "{", "t", "a", "s", "k", ".", "h", "e", "a", "d", "e", "r", "}", "}">>)]),
                PyDict([
                    kind |-> PyStr(LINE),
                    pattern |-> PyStr(<<"{", "{", "q", "u", "e", "s", "t", "i", "o", "n", ".", "q", "u", "e", "s", "t", "i", "o", "n", "_", "t", "e", "x", "t", "}", "}">>)]),
                PyDict([kind |-> PyStr(SPACER), mm |-> PyInt(2)]),
                PyDict([
                    kind |-> PyStr(LINE),
                    pattern |-> PyStr(<<"E", "t", "a", "l", "o", "n", ":", " ", "{", "{", "q", "u", "e", "s", "t", "i", "o", "n", ".", "r", "e", "f", "e", "r", "e", "n", "c", "e", "_", "a", "n", "s", "w", "e", "r", "}", "}">>)])>>)])

\* preset_dash_answer
preset_dash_answer(question_type_) ==
    LET answer_expr ==
            IF question_type_ = "matching" THEN <<"{", "{", "q", "u", "e", "s", "t", "i", "o", "n", ".", "m", "a", "t", "c", "h", "i", "n", "g", "_", "j", "o", "i", "n", "}", "}">>
            ELSE IF question_type_ \in {"multichoice", "truefalse", "shortanswer"}
                 THEN <<"{", "{", "q", "u", "e", "s", "t", "i", "o", "n", ".", "c", "o", "r", "r", "e", "c", "t", "_", "j", "o", "i", "n", "}", "}">>
                 ELSE <<"{", "{", "q", "u", "e", "s", "t", "i", "o", "n", ".", "r", "e", "f", "e", "r", "e", "n", "c", "e", "_", "a", "n", "s", "w", "e", "r", "}", "}">>
    IN PyDict([
            version |-> PyInt(SchemaVersion),
            styles |-> PyDict([
                header_color |-> PyStr(<<"#", "C", "0", "0", "0", "0", "0">>),
                title_size |-> PyInt(22),
                header_size |-> PyInt(16),
                body_size |-> PyInt(14),
                answer_size |-> PyInt(12)]),
            blocks |-> PyList(<<
                PyDict([kind |-> PyStr(LINE), pattern |-> PyStr(<<"{", "{", "t", "a", "s", "k", ".", "h", "e", "a", "d", "e", "r", "}", "}">>)]),
                PyDict([kind |-> PyStr(LINE),
                        pattern |-> PyStr(<<"{", "{", "q", "u", "e", "s", "t", "i", "o", "n", ".", "q", "u", "e", "s", "t", "i", "o", "n", "_", "t", "e", "x", "t", "}", "}", " ", "-", " ">> \o answer_expr)])>>)])

-----------------------------------------------------------------------------
(* template_engine.migration *)

\* the sizes migrate_v1_to_v2 takes over, in the order of its loop
SizeKeys == <<"title_size", "header_size", "body_size", "answer_size">>

RECURSIVE OverlaySizes(_, _, _)
\* for key_old, key_new in [...]: styles[key_new] = int(v1_styles[key_old])
\* when that is an int or a float
OverlaySizes(styles, v1_styles, keys) ==
    IF keys = <<>> THEN styles
    ELSE OverlaySizes(
            IF isinstance(Get(v1_styles.value, keys[1], PyNone), {"int", "float"})
            THEN DictSet(styles, keys[1], PyInt(int(v1_styles.value[keys[1]])))
            ELSE styles,
            v1_styles, Tail(keys))

\* whether b is the block the loop of migrate_v1_to_v2 stops at
IsTableBlock(b) ==
    isinstance(b, {"dict"}) /\ EqualsStr(Get(b.value, "kind", PyNone), TABLE)

\* migrate_v1_to_v2
migrate_v1_to_v2(v1, question_type_) ==
    LET v2 == preset_table_default(question_type_)
        styles == Get(v2.value, "styles", EmptyDict)
        v1_styles == IF isinstance(Get(v1.value, "styles", PyNone), {"dict"})
                     THEN v1.value.styles ELSE EmptyDict
        styles_colored ==
            IF isinstance(Get(v1_styles.value, "header_color", PyNone), {"str"})
            THEN DictSet(styles, "header_color", v1_styles.value.header_color)
            ELSE styles
        layout == IF isinstance(Get(v1.value, "layout", PyNone), {"dict"})
                  THEN v1.value.layout ELSE EmptyDict
        type_layout == Get(layout.value, question_type_, PyNone)
        tc == IF isinstance(type_layout, {"dict"})
              THEN Get(type_layout.value, "table_cols_pct", PyNone)
              ELSE PyNone
        table_cols ==
            IF isinstance(tc, {"list"})
               /\ \A k \in 1..Len(tc.value) : isinstance(tc.value[k], {"int", "float"})
            THEN PyList([k \in 1..Len(tc.value) |-> PyInt(int(tc.value[k]))])
            ELSE PyNone
        blocks == Get(v2.value, "blocks", PyList(<<>>)).value
        tables == {k \in 1..Len(blocks) : IsTableBlock(blocks[k])}
        first_table == FirstOf(tables)
        blocks_widened ==
            IF bool(table_cols) /\ first_table # 0
            THEN [blocks EXCEPT ![first_table] = DictSet(@, "col_widths_pct", table_cols)]
            ELSE blocks
    IN DictSet(DictSet(v2, "styles", OverlaySizes(styles_colored, v1_styles, SizeKeys)),
               "blocks", PyList(blocks_widened))

-----------------------------------------------------------------------------
(* template_engine.render_html *)

RECURSIVE IntToStr(_)
\* str(n) of an integer
IntToStr(n) ==
    IF n < 0 THEN <<"-">> \o IntToStr(-n)
    ELSE IF n < 10 THEN <<(<<"0", "1", "2", "3", "4", "5", "6", "7", "8", "9">>)[n + 1]>>
    ELSE IntToStr(n \div 10) \o IntToStr(n % 10)

RECURSIVE Join(_, _)
\* sep.join(texts)
Join(texts, sep) ==
    IF texts = <<>> THEN <<>>
    ELSE IF Len(texts) = 1 THEN texts[1]
    ELSE texts[1] \o sep \o Join(Tail(texts), sep)

\* the keys of a formatted dict in insertion order: the formatted dicts are
\* the matching items, built with the keys item and answer
KeysInOrder(d) == SelectSeq(<<"item", "answer">>, LAMBDA key : key \in DOMAIN d.value)

\* the characters of a key of the modelled dicts
KeyChars(key) ==
    CASE key = "item" -> <<"i", "t", "e", "m">>
      [] key = "answer" -> <<"a", "n", "s", "w", "e", "r">>

RECURSIVE str(_)
RECURSIVE repr(_)
\* str(v); the modelled texts hold no quote and no backslash
str(v) ==
    CASE v.type = "str" -> v.value
      [] v.type = "NoneType" -> <<"N", "o", "n", "e">>
      [] v.type = "int" -> IntToStr(v.value)
      [] v.type = "float" ->
            (IF v.value < 0 THEN <<"-">> ELSE <<>>)
            \o IntToStr((IF v.value < 0 THEN -v.value ELSE v.value) \div 10)
            \o <<".">> \o IntToStr((IF v.value < 0 THEN -v.value ELSE v.value) % 10)
      [] v.type = "list" ->
            <<"[">> \o Join([k \in 1..Len(v.value) |-> repr(v.value[k])], <<",", " ">>) \o <<"]">>
      [] v.type = "dict" ->
            <<"{">>
            \o Join([k \in 1..Len(KeysInOrder(v)) |->
                        <<"'">> \o KeyChars(KeysInOrder(v)[k]) \o <<"'", ":", " ">>
                        \o repr(v.value[KeysInOrder(v)[k]])], <<",", " ">>)
            \o <<"}">>

\* repr(v)
repr(v) == IF v.type = "str" THEN <<"'">> \o v.value \o <<"'">> ELSE str(v)

\* html.escape(text, quote=True)
html_escape(text) ==
    LET text1 == replace(text, "&", <<"&", "a", "m", "p", ";">>)
        text2 == replace(text1, "<", <<"&", "l", "t", ";">>)
        text3 == replace(text2, ">", <<"&", "g", "t", ";">>)
        text4 == replace(text3, "\"", <<"&", "q", "u", "o", "t", ";">>)
    IN replace(text4, "'", <<"&", "#", "x", "2", "7", ";">>)

\* _esc
_esc(v) == html_escape(IF v.type = "NoneType" THEN <<>> ELSE str(v))

\* d.get(key) or []
GetOrEmptyList(d, key) ==
    LET v == Get(d.value, key, PyNone) IN IF bool(v) THEN v ELSE PyList(<<>>)

\* f"{p.get('item','')}{arrow}{p.get('answer','')}" of the matching pairs that are
\* dicts (the arrow of the source is written --)
PairTexts(matching_pairs) ==
    LET pairs == SelectSeq(matching_pairs, LAMBDA p : isinstance(p, {"dict"})) IN
    [k \in 1..Len(pairs) |->
        str(Get(pairs[k].value, "item", PyStr(<<>>))) \o <<"-", "-">>
        \o str(Get(pairs[k].value, "answer", PyStr(<<>>)))]

\* _get_question_view
_get_question_view(question_) ==
    LET correct == GetOrEmptyList(question_, "correct_answers").value
        matching_pairs == GetOrEmptyList(question_, "matching_items").value
    IN DictSet(
          DictSet(question_, "correct_join",
                  PyStr(Join([k \in 1..Len(correct) |-> str(correct[k])], <<";", " ">>))),
          "matching_join", PyStr(Join(PairTexts(matching_pairs), <<";", " ">>)))

\* the key of a dict of the model that a text names; "" names no key
KeyOf(text) ==
    CASE text = <<"t", "y", "p", "e">> -> "type"
      [] text = <<"q", "u", "e", "s", "t", "i", "o", "n", "_", "t", "e", "x", "t">> -> "question_text"
      [] text = <<"r", "e", "f", "e", "r", "e", "n", "c", "e", "_", "a", "n", "s", "w", "e", "r">> -> "reference_answer"
      [] text = <<"n", "a", "m", "e">> -> "name"
      [] text = <<"a", "n", "s", "w", "e", "r", "s">> -> "answers"
      [] text = <<"c", "o", "r", "r", "e", "c", "t", "_", "a", "n", "s", "w", "e", "r", "s">> -> "correct_answers"
      [] text = <<"m", "a", "t", "c", "h", "i", "n", "g", "_", "i", "t", "e", "m", "s">> -> "matching_items"
      [] text = <<"m", "a", "t", "c", "h", "i", "n", "g", "_", "a", "n", "s", "w", "e", "r", "s">> -> "matching_answers"
      [] text = <<"c", "o", "r", "r", "e", "c", "t", "_", "j", "o", "i", "n">> -> "correct_join"
      [] text = <<"m", "a", "t", "c", "h", "i", "n", "g", "_", "j", "o", "i", "n">> -> "matching_join"
      [] text = <<"p", "k", "_", "p", "r", "e", "f", "i", "x">> -> "pk_prefix"
      [] text = <<"p", "k", "_", "i", "d">> -> "pk_id"
      [] text = <<"i", "p", "k", "_", "p", "r", "e", "f", "i", "x">> -> "ipk_prefix"
      [] text = <<"i", "p", "k", "_", "i", "d">> -> "ipk_id"
      [] text = <<"d", "e", "s", "c", "r", "i", "p", "t", "i", "o", "n">> -> "description"
      [] text = <<"i", "t", "e", "m">> -> "item"
      [] text = <<"a", "n", "s", "w", "e", "r">> -> "answer"
      [] OTHER -> ""

\* a lookup that formats whatever dict.get returns
Lookup_unchecked(d, text) == str(Get(d.value, KeyOf(text), PyNone))

\* "" if key not in d else str(d.get(key) or "")
Lookup(d, text) ==
    LET key == KeyOf(text) IN
    IF key \notin DOMAIN d.value THEN <<>>
    ELSE IF bool(d.value[key]) THEN str(d.value[key]) ELSE <<>>

RECURSIVE _eval_pipe_marksall(_, _, _)
\* an evaluator whose is_correct marks every value
_eval_pipe_marksall(expr, ctx, item) ==
    LET expr_ == strip(expr) IN
    IF "|" \in Range(expr_) THEN
        LET bar == find(expr_, <<"|">>, 1)
            base == strip(SubSeq(expr_, 1, bar - 1))
            op == strip(SubSeq(expr_, bar + 1, Len(expr_)))
            val == _eval_pipe_marksall(base, ctx, item)
            correct == Range(GetOrEmptyList(ctx.question, "correct_answers").value)
        IN IF op = <<"i", "s", "_", "c", "o", "r", "r", "e", "c", "t">> THEN <<"+">>
           ELSE IF op = <<"i", "f", "_", "c", "o", "r", "r", "e", "c", "t">>
           THEN (IF PyStr(val) \in correct THEN val ELSE <<>>)
           ELSE val
    ELSE IF startswith(expr_, <<"q", "u", "e", "s", "t", "i", "o", "n", ".">>)
    THEN Lookup(ctx.question, SliceFrom(expr_, Len(<<"q", "u", "e", "s", "t", "i", "o", "n", ".">>)))
    ELSE IF startswith(expr_, <<"m", "e", "t", "a", "d", "a", "t", "a", ".">>)
    THEN Lookup(ctx.metadata, SliceFrom(expr_, Len(<<"m", "e", "t", "a", "d", "a", "t", "a", ".">>)))
    ELSE IF expr_ = <<"t", "a", "s", "k", ".", "h", "e", "a", "d", "e", "r">> THEN ctx.task_header
    ELSE IF expr_ = <<"i", "t", "e", "m">>
    THEN (IF item.type = "NoneType" THEN <<>> ELSE str(item))
    ELSE IF startswith(expr_, <<"i", "t", "e", "m", ".">>) /\ isinstance(item, {"dict"})
    THEN LET v == Get(item.value, KeyOf(SliceFrom(expr_, Len(<<"i", "t", "e", "m", ".">>))), PyStr(<<>>))
         IN IF bool(v) THEN str(v) ELSE <<>>
    ELSE <<>>

RECURSIVE _eval_pipe(_, _, _)
\* _eval_pipe; ctx is [question, metadata, task_header], item a value
\* (None when no item is bound)
_eval_pipe(expr, ctx, item) ==
    LET expr_ == strip(expr) IN
    IF "|" \in Range(expr_) THEN
        LET bar == find(expr_, <<"|">>, 1)
            base == strip(SubSeq(expr_, 1, bar - 1))
            op == strip(SubSeq(expr_, bar + 1, Len(expr_)))
            val == _eval_pipe(base, ctx, item)
            correct == Range(GetOrEmptyList(ctx.question, "correct_answers").value)
        IN IF op = <<"i", "s", "_", "c", "o", "r", "r", "e", "c", "t">>
           THEN (IF PyStr(val) \in correct THEN <<"+">> ELSE <<>>)
           ELSE IF op = <<"i", "f", "_", "c", "o", "r", "r", "e", "c", "t">>
           THEN (IF PyStr(val) \in correct THEN val ELSE <<>>)
           ELSE val
    ELSE IF startswith(expr_, <<"q", "u", "e", "s", "t", "i", "o", "n", ".">>)
    THEN Lookup(ctx.question, SliceFrom(expr_, Len(<<"q", "u", "e", "s", "t", "i", "o", "n", ".">>)))
    ELSE IF startswith(expr_, <<"m", "e", "t", "a", "d", "a", "t", "a", ".">>)
    THEN Lookup(ctx.metadata, SliceFrom(expr_, Len(<<"m", "e", "t", "a", "d", "a", "t", "a", ".">>)))
    ELSE IF expr_ = <<"t", "a", "s", "k", ".", "h", "e", "a", "d", "e", "r">> THEN ctx.task_header
    ELSE IF expr_ = <<"i", "t", "e", "m">>
    THEN (IF item.type = "NoneType" THEN <<>> ELSE str(item))
    ELSE IF startswith(expr_, <<"i", "t", "e", "m", ".">>) /\ isinstance(item, {"dict"})
    THEN LET v == Get(item.value, KeyOf(SliceFrom(expr_, Len(<<"i", "t", "e", "m", ".">>))), PyStr(<<>>))
         IN IF bool(v) THEN str(v) ELSE <<>>
    ELSE <<>>

RECURSIVE SubExpr(_, _, _, _)
\* _EXPR_RE.sub(repl, pattern) from position k on: a match is '{{', then at
\* least one character other than '}', then '}}'
SubExpr(pattern, ctx, item, k) ==
    LET start == find(pattern, <<"{", "{">>, k)
        close == IF start = 0 THEN 0 ELSE find(pattern, <<"}">>, start + 2)
    IN IF close = 0 THEN SubSeq(pattern, k, Len(pattern))
       ELSE IF close >= start + 3 /\ LiteralAt(pattern, <<"}", "}">>, close)
       THEN SubSeq(pattern, k, start - 1)
            \o html_escape(_eval_pipe(SubSeq(pattern, start + 2, close - 1), ctx, item))
            \o SubExpr(pattern, ctx, item, close + 2)
       ELSE SubSeq(pattern, k, start) \o SubExpr(pattern, ctx, item, start + 1)

\* _render_pattern
_render_pattern(pattern, ctx, item) == SubExpr(pattern, ctx, item, 1)

\* the items of a list or table block
ItemsOf(source, question_) ==
    IF EqualsStr(source, ANSWERS_ALL) THEN GetOrEmptyList(question_, "answers").value
    ELSE IF EqualsStr(source, ANSWERS_CORRECT)
    THEN GetOrEmptyList(question_, "correct_answers").value
    ELSE IF EqualsStr(source, MATCHING_PAIRS)
    THEN GetOrEmptyList(question_, "matching_items").value
    ELSE <<>>

\* a table branch without the row of an unbound item
TableNode_noempty(b, question_, ctx) ==
    LET cols == GetOrEmptyList(b, "cols").value
        items == ItemsOf(Get(b.value, "source", PyNone), question_)
    IN [kind |-> "table",
        head |-> None,
        rows |-> [r \in 1..Len(items) |->
                    [k \in 1..Len(cols) |->
                        [style |-> <<>>,
                         html |-> _render_pattern(cols[k].value, ctx, items[r])]]]]

\* the table branch of render_question_html: the node of a table block.  A
\* cell is [style |-> the text of its style attribute, html |-> its content]
TableNode(b, question_, ctx) ==
    LET headers == GetOrEmptyList(b, "headers").value
        cols == GetOrEmptyList(b, "cols").value
        widths == GetOrEmptyList(b, "col_widths_pct").value
        items == ItemsOf(Get(b.value, "source", PyNone), question_)
        col_count == Len(cols)
        width_style ==
            IF widths # <<>> /\ Len(widths) = col_count
            THEN [k \in 1..col_count |-> <<"w", "i", "d", "t", "h", ":">> \o IntToStr(int(widths[k])) \o <<"%">>]
            ELSE [k \in 1..col_count |-> <<>>]
        rows == IF items # <<>> THEN items ELSE <<PyNone>>
    IN [kind |-> "table",
        head |-> IF headers # <<>> /\ Len(headers) = col_count
                 THEN Some([k \in 1..col_count |->
                              [style |-> html_escape(width_style[k]),
                               html |-> _esc(headers[k])]])
                 ELSE None,
        rows |-> [r \in 1..Len(rows) |->
                    [k \in 1..col_count |->
                        [style |-> html_escape(width_style[k]),
                         html |-> _render_pattern(cols[k].value, ctx, rows[r])]]]]

\* the list branch of render_question_html: the node of a list block
ListNode(b, question_, ctx) ==
    LET pattern == Get(b.value, "pattern", PyStr(<<"{", "{", "i", "t", "e", "m", "}", "}">>))
        items == ItemsOf(Get(b.value, "source", PyNone), question_)
    IN [kind |-> "list",
        tag |-> IF bool(Get(b.value, "bullet", PyInt(1))) THEN "ul" ELSE "ol",
        lis |-> IF items # <<>>
                THEN [k \in 1..Len(items) |-> _render_pattern(pattern.value, ctx, items[k])]
                ELSE << <<>> >>]

\* a loop body that appends nothing for a spacer
RenderBlock_nospacer(b, question_, ctx) ==
    LET kind == Get(b.value, "kind", PyNone) IN
    IF EqualsStr(kind, LINE)
    THEN <<[kind |-> "line",
            html |-> _render_pattern(Get(b.value, "pattern", PyStr(<<>>)).value, ctx, PyNone)]>>
    ELSE IF EqualsStr(kind, LIST) THEN <<ListNode(b, question_, ctx)>>
    ELSE IF EqualsStr(kind, TABLE) THEN <<TableNode(b, question_, ctx)>>
    ELSE <<>>

\* the body of the loop over blocks: what one block appends to out
RenderBlock(b, question_, ctx) ==
    LET kind == Get(b.value, "kind", PyNone) IN
    IF EqualsStr(kind, LINE)
    THEN <<[kind |-> "line",
            html |-> _render_pattern(Get(b.value, "pattern", PyStr(<<>>)).value, ctx, PyNone)]>>
    ELSE IF EqualsStr(kind, SPACER)
    THEN <<[kind |-> "spacer", mm |-> int(Get(b.value, "mm", PyInt(DefaultMm)))]>>
    ELSE IF EqualsStr(kind, LIST) THEN <<ListNode(b, question_, ctx)>>
    ELSE IF EqualsStr(kind, TABLE) THEN <<TableNode(b, question_, ctx)>>
    ELSE <<>>

\* the task header (its Cyrillic words and its dash are transliterated)
TaskHeader(metadata_, task_number_) ==
    <<"-", " ", "Z", "a", "d", "a", "n", "i", "e", " ">> \o IntToStr(task_number_) \o <<" ", "(">>
    \o str(Get(metadata_.value, "pk_prefix", PyStr(<<"P", "K">>))) \o <<"-">>
    \o str(Get(metadata_.value, "pk_id", PyStr(<<>>))) \o <<" ", "-", " ">>
    \o str(Get(metadata_.value, "ipk_prefix", PyStr(<<"I", "P", "K">>))) \o <<"-">>
    \o str(Get(metadata_.value, "ipk_id", PyStr(<<>>))) \o <<" ">>
    \o str(Get(metadata_.value, "description", PyStr(<<>>))) \o <<")">>

\* a renderer that gives the diagnostic only when some block is invalid
render_question_html_partial(cfg, question_, metadata_, task_number_) ==
    LET errors_ == validate_template_config_v2(cfg)
        blocks_ == IF isinstance(cfg, {"dict"}) THEN Get(cfg.value, "blocks", PyNone)
                   ELSE PyNone
        ctx == [question |-> _get_question_view(question_),
                metadata |-> metadata_,
                task_header |-> TaskHeader(metadata_, task_number_)]
    IN IF errors_ # <<>>
          /\ (~isinstance(blocks_, {"list"}) \/ ~bool(blocks_)
              \/ BlocksErrors(blocks_.value, 1) # <<>>)
       THEN [kind |-> "error", errors |-> errors_]
       ELSE [kind |-> "html",
             out |-> Concat([k \in 1..Len(blocks_.value) |->
                               RenderBlock(blocks_.value[k], question_, ctx)])]

\* render_question_html.  The returned HTML is either the one diagnostic
\* div, kept as [kind |-> "error", errors |-> the errors it lists], or
\* "\n".join(out), kept as [kind |-> "html", out |-> the list out], each
\* element of out as the record of what its HTML holds
render_question_html(cfg, question_, metadata_, task_number_) ==
    LET errors_ == validate_template_config_v2(cfg) IN
    IF errors_ # <<>> THEN [kind |-> "error", errors |-> errors_]
    ELSE
    LET ctx == [question |-> _get_question_view(question_),
                metadata |-> metadata_,
                task_header |-> TaskHeader(metadata_, task_number_)]
        blocks == GetOrEmptyList(cfg, "blocks").value
    IN [kind |-> "html",
        out |-> Concat([k \in 1..Len(blocks) |-> RenderBlock(blocks[k], question_, ctx)])]

-----------------------------------------------------------------------------
(* The template engine, called on configurations, presets and legacy
   configurations *)

\* most blocks of a configuration given to the validator
MaxBlocks == 2

\* a dict with the one key when the option holds a value, {} otherwise
Field(key, option) == [k \in (IF option = None THEN {} ELSE {key}) |-> Val(option)]

\* a minimal question of each type, as Question.to_dict gives it
SampleQuestion(type) ==
    LET base == [type |-> PyStr(<<>>), question_text |-> PyStr(<<"Q", "?">>),
                 reference_answer |-> PyStr(<<>>), name |-> PyStr(<<>>),
                 answers |-> PyList(<<>>), correct_answers |-> PyList(<<>>),
                 matching_items |-> PyList(<<>>), matching_answers |-> PyList(<<>>)]
    IN PyDict(
        IF type = "shortanswer" THEN
            [base EXCEPT !.reference_answer = PyStr(<<"A">>),
                         !.correct_answers = PyList(<<PyStr(<<"A">>)>>)]
        ELSE IF type = "multichoice" THEN
            [base EXCEPT !.answers = PyList(<<PyStr(<<"A">>), PyStr(<<"B">>)>>),
                         !.correct_answers = PyList(<<PyStr(<<"A">>)>>)]
        ELSE IF type = "truefalse" THEN
            [base EXCEPT !.answers = PyList(<<PyStr(Verno), PyStr(Neverno)>>),
                         !.correct_answers = PyList(<<PyStr(Verno)>>)]
        ELSE IF type = "matching" THEN
            [base EXCEPT !.matching_items =
                            PyList(<<PyDict([item |-> PyStr(<<"i">>),
                                             answer |-> PyStr(<<"a">>)])>>),
                         !.matching_answers = PyList(<<PyStr(<<"a">>)>>)]
        ELSE [base EXCEPT !.reference_answer = PyStr(<<"A">>)])

\* the metadata of a document
SampleMetadata ==
    PyDict([pk_prefix |-> PyStr(<<"P", "K">>), pk_id |-> PyStr(<<"1", ".", "3">>),
            ipk_prefix |-> PyStr(<<"I", "P", "K">>), ipk_id |-> PyStr(<<"1", ".", "3", ".", "3">>),
            description |-> PyStr(<<"d", "e", "s", "c">>)])

\* blocks of configurations: not an object, without kind, of an unknown
\* kind, and of each kind both valid and with one or more faults
BlockSamples ==
    {PyInt(3),
     EmptyDict,
     PyDict([kind |-> PyStr(<<"x">>)]),
     PyDict([kind |-> PyStr(LINE), pattern |-> PyStr(<<"{", "{", "t", "a", "s", "k", ".", "h", "e", "a", "d", "e", "r", "}", "}">>)]),
     PyDict([kind |-> PyStr(LINE), pattern |-> PyStr(<<" ">>)]),
     PyDict([kind |-> PyStr(SPACER)]),
     PyDict([kind |-> PyStr(SPACER), mm |-> PyInt(MaxMm + 1)]),
     PyDict([kind |-> PyStr(SPACER), mm |-> PyStr(<<"4">>)]),
     PyDict([kind |-> PyStr(LIST), source |-> PyStr(ANSWERS_ALL),
             pattern |-> PyStr(<<"{", "{", "i", "t", "e", "m", "|", "i", "s", "_", "c", "o", "r", "r", "e", "c", "t", "}", "}", " ", "{", "{", " ", "i", "t", "e", "m", " ", "}", "}">>)]),
     PyDict([kind |-> PyStr(LIST), source |-> PyStr(<<"b", "a", "d">>)]),
     PyDict([kind |-> PyStr(TABLE), source |-> PyStr(ANSWERS_CORRECT),
             cols |-> PyList(<<PyStr(<<"{", "{", "i", "t", "e", "m", "}", "}">>)>>)]),
     PyDict([kind |-> PyStr(TABLE), cols |-> PyList(<<>>), headers |-> PyInt(5),
             col_widths_pct |-> PyList(<<PyStr(<<"x">>)>>)])}

\* the version, styles and blocks (when not a list of blocks) of the
\* configurations: missing or one of some values
Versions == {None, Some(PyInt(SchemaVersion)), Some(PyStr(<<"2">>))}
StylesValues == {None, Some(PyNone), Some(EmptyDict), Some(PyInt(3))}
NoBlocks == {None, Some(PyStr(<<"x">>)), Some(PyList(<<>>))}

\* the source, cols, headers and col_widths_pct of the table blocks
TableSources == {Some(PyStr(ANSWERS_ALL)), Some(PyStr(<<"b", "a", "d">>))}
TableCols ==
    {None, Some(PyStr(<<"a", "b">>)), Some(PyList(<<>>)),
     Some(PyList(<<PyStr(<<"{", "{", "i", "t", "e", "m", "}", "}">>)>>)),
     Some(PyList(<<PyStr(<<"{", "{", "i", "t", "e", "m", "}", "}">>), PyStr(<<"x">>)>>)),
     Some(PyList(<<PyStr(<<"x">>), PyStr(<<" ">>)>>)),
     Some(PyList(<<PyStr(<<"x">>), PyInt(3)>>))}
TableHeaders ==
    {None, Some(PyNone), Some(PyStr(<<"a", "b">>)), Some(PyList(<<>>)),
     Some(PyList(<<PyStr(<<"h">>)>>)),
     Some(PyList(<<PyStr(<<"h">>), PyStr(<<"<">>)>>)),
     Some(PyList(<<PyInt(1), PyNone>>))}
TableWidths ==
    {None, Some(PyNone), Some(PyInt(5)), Some(PyList(<<>>)),
     Some(PyList(<<PyInt(50)>>)),
     Some(PyList(<<PyInt(50), PyInt(50)>>)),
     Some(PyList(<<PyInt(0), PyInt(0)>>)),
     Some(PyList(<<PyInt(50), PyStr(<<"x">>)>>))}

\* the styles and the layout of the legacy configurations
V1HeaderColors == {None, Some(PyStr(<<"#", "0", "0", "F", "F", "0", "0">>)), Some(PyStr(<<" ">>)), Some(PyInt(5))}
V1TitleSizes == {None, Some(PyInt(20)), Some(PyFloat(205)), Some(PyStr(<<"2", "0">>))}
V1TableCols ==
    {None, Some(PyStr(<<"x">>)), Some(PyList(<<>>)),
     Some(PyList(<<PyInt(15), PyInt(15), PyInt(70)>>)),
     Some(PyList(<<PyFloat(155), PyInt(15), PyInt(70)>>)),
     Some(PyList(<<PyInt(15), PyStr(<<"x">>)>>))}

\* a configuration given to the validator and the renderer as it is
InitConfigured ==
    /\ pc = "configured"
    /\ v1_config = None
    /\ \/ /\ question_type = "multichoice"
          /\ \/ \E cfg \in {PyNone, PyList(<<>>)} : config = Some(cfg)
             \/ \E version \in Versions : \E styles \in StylesValues :
                   \/ \E blocks \in NoBlocks :
                         config = Some(PyDict(Field("version", version)
                                              @@ Field("styles", styles)
                                              @@ Field("blocks", blocks)))
                   \/ \E k \in 1..MaxBlocks : \E blocks \in [1..k -> BlockSamples] :
                         config = Some(PyDict(Field("version", version)
                                              @@ Field("styles", styles)
                                              @@ [blocks |-> PyList(blocks)]))
       \/ /\ question_type \in {"multichoice", "matching"}
          /\ \E source \in TableSources : \E cols \in TableCols :
                \E headers \in TableHeaders : \E widths \in TableWidths :
                   config = Some(PyDict(
                       [version |-> PyInt(SchemaVersion),
                        blocks |-> PyList(<<PyDict(
                            [kind |-> PyStr(TABLE)]
                            @@ Field("source", source) @@ Field("cols", cols)
                            @@ Field("headers", headers)
                            @@ Field("col_widths_pct", widths))>>)]))

\* a call of a preset
InitPreset ==
    /\ pc = "call_preset"
    /\ question_type \in KnownTypes
    /\ v1_config = None
    /\ config = None

\* a call of migrate_v1_to_v2
InitMigrate ==
    /\ pc = "call_migrate"
    /\ question_type \in KnownTypes
    /\ \E header_color \in V1HeaderColors : \E title_size \in V1TitleSizes :
          \E styles \in {None, Some(PyInt(1)),
                         Some(PyDict(Field("header_color", header_color)
                                     @@ Field("title_size", title_size)))} :
          \E tc \in V1TableCols :
          \E layout \in {None, Some(PyInt(1)),
                         Some(PyDict([t \in {question_type} |-> PyInt(1)])),
                         Some(PyDict([t \in {question_type} |->
                                        PyDict(Field("table_cols_pct", tc))]))} :
             v1_config = Some(PyDict(Field("styles", styles) @@ Field("layout", layout)))
    /\ config = None

\* most answers of a question given to the renderer
MaxItems == 2

\* the texts of the answers of those questions
AnswerTexts == {PyStr(<<"2">>), PyStr(<<"3">>), PyStr(<<"<">>)}

\* configurations with a list or a table over the answers
AnswerConfigs ==
    LET OneBlock(b) == PyDict([version |-> PyInt(SchemaVersion), blocks |-> PyList(<<b>>)])
    IN {OneBlock(PyDict([kind |-> PyStr(TABLE), source |-> PyStr(ANSWERS_ALL),
                         cols |-> PyList(<<PyStr(<<"{", "{", "i", "t", "e", "m", "}", "}">>),
                                           PyStr(<<"{", "{", "i", "t", "e", "m", "|", "i", "s", "_", "c", "o", "r", "r", "e", "c", "t", "}", "}">>)>>)])),
        OneBlock(PyDict([kind |-> PyStr(TABLE), source |-> PyStr(ANSWERS_ALL),
                         headers |-> PyList(<<PyStr(<<"h">>), PyStr(<<"c">>)>>),
                         col_widths_pct |-> PyList(<<PyInt(0), PyInt(0)>>),
                         cols |-> PyList(<<PyStr(<<"{", "{", "i", "t", "e", "m", "|", "i", "f", "_", "c", "o", "r", "r", "e", "c", "t", "}", "}">>),
                                           PyStr(<<"x", "{", "{", " ", "i", "t", "e", "m", " ", "|", " ", "i", "s", "_", "c", "o", "r", "r", "e", "c", "t", " ", "}", "}">>)>>)])),
        OneBlock(PyDict([kind |-> PyStr(TABLE), source |-> PyStr(ANSWERS_CORRECT),
                         col_widths_pct |-> PyList(<<PyInt(30), PyInt(70)>>),
                         cols |-> PyList(<<PyStr(<<"{", "{", "i", "t", "e", "m", "}", "}">>),
                                           PyStr(<<"{", "{", "q", "u", "e", "s", "t", "i", "o", "n", ".", "c", "o", "r", "r", "e", "c", "t", "_", "j", "o", "i", "n", "}", "}">>)>>)])),
        OneBlock(PyDict([kind |-> PyStr(LIST), source |-> PyStr(ANSWERS_ALL),
                         pattern |-> PyStr(<<"x", "{", "{", "i", "t", "e", "m", "}", "}">>)])),
        OneBlock(PyDict([kind |-> PyStr(LIST), source |-> PyStr(ANSWERS_CORRECT),
                         bullet |-> PyInt(0),
                         pattern |-> PyStr(<<"{", "{", "i", "t", "e", "m", "}", "}">>)]))}

\* a configuration over a multichoice question with any answers, or without
\* the key answers
InitAnswers ==
    /\ pc = "configured"
    /\ question_type = "multichoice"
    /\ v1_config = None
    /\ \E cfg \in AnswerConfigs : config = Some(cfg)
    /\ \E n \in 0..MaxItems : \E answers \in [1..n -> AnswerTexts] :
          \E correct \in SUBSET AnswerTexts :
          \E has_answers \in BOOLEAN :
             LET base == SampleQuestion("multichoice").value
                 keys == IF has_answers THEN DOMAIN base ELSE DOMAIN base \ {"answers"}
             IN /\ ~has_answers => n = 0
                /\ question_dict =
                      PyDict([k \in keys |->
                                IF k = "answers" THEN PyList(answers)
                                ELSE IF k = "correct_answers"
                                THEN PyList(SelectSeq(<<PyStr(<<"2">>), PyStr(<<"3">>),
                                                        PyStr(<<"<">>)>>,
                                                      LAMBDA a : a \in correct))
                                ELSE base[k]])

\* the base forms of the expressions given to _eval_pipe: of each form, and
\* of none
EvalBases ==
    {<<"i", "t", "e", "m">>, <<"i", "t", "e", "m", ".", "i", "t", "e", "m">>, <<"i", "t", "e", "m", ".", "a", "n", "s", "w", "e", "r">>, <<"i", "t", "e", "m", ".", "z", "z", "z">>,
     <<"q", "u", "e", "s", "t", "i", "o", "n", ".", "q", "u", "e", "s", "t", "i", "o", "n", "_", "t", "e", "x", "t">>, <<"q", "u", "e", "s", "t", "i", "o", "n", ".", "r", "e", "f", "e", "r", "e", "n", "c", "e", "_", "a", "n", "s", "w", "e", "r">>,
     <<"q", "u", "e", "s", "t", "i", "o", "n", ".", "c", "o", "r", "r", "e", "c", "t", "_", "j", "o", "i", "n">>, <<"q", "u", "e", "s", "t", "i", "o", "n", ".", "z", "z", "z">>, <<"q", "u", "e", "s", "t", "i", "o", "n", ".">>,
     <<"m", "e", "t", "a", "d", "a", "t", "a", ".", "p", "k", "_", "i", "d">>, <<"m", "e", "t", "a", "d", "a", "t", "a", ".", "z", "z", "z">>,
     <<"t", "a", "s", "k", ".", "h", "e", "a", "d", "e", "r">>, <<"t", "a", "s", "k", ".", "h", "e", "a", "d", "e", "r", "s">>, <<"z", "z", "z">>, <<>>}

\* what follows the base form: nothing, a pipe, a pipe among blanks, a pipe
\* that is not known
EvalPipes ==
    {<<>>, <<"|", "i", "s", "_", "c", "o", "r", "r", "e", "c", "t">>, <<"|", "i", "f", "_", "c", "o", "r", "r", "e", "c", "t">>, <<" ", "|", " ", "i", "s", "_", "c", "o", "r", "r", "e", "c", "t", " ">>, <<"|", "z", "z", "z">>,
     <<"|", "i", "s", "_", "c", "o", "r", "r", "e", "c", "t", "|", "x">>}

\* the items: none bound, texts, a number, records
EvalItems ==
    {PyNone, PyStr(<<"2">>), PyStr(<<"4">>), PyInt(2),
     PyDict([item |-> PyStr(<<"2">>), answer |-> PyStr(<<"a">>)]),
     PyDict([item |-> PyStr(<<"4">>)])}

\* a call of _eval_pipe on a multichoice question
InitEval ==
    /\ pc = "call_eval"
    /\ question_type = "multichoice"
    /\ v1_config = None
    /\ config = None
    /\ \E base \in EvalBases : \E pipe \in EvalPipes : eval_expr = base \o pipe
    /\ eval_item \in EvalItems
    /\ eval_value = None
    /\ \E correct \in {<<>>, <<PyStr(<<"2">>)>>, <<PyStr(<<"2">>), PyStr(<<"3">>)>>,
                       <<PyStr(<<"a">>), PyInt(2)>>} :
          question_dict =
             PyDict([SampleQuestion("multichoice").value
                        EXCEPT !.correct_answers = PyList(correct),
                               !.question_text = PyStr(<<"2">>)])

InitTemplate ==
    /\ \/ /\ InitConfigured \/ InitPreset \/ InitMigrate
          /\ question_dict = SampleQuestion(question_type)
          /\ EvalIdle
       \/ InitAnswers /\ EvalIdle
       \/ InitEval
    /\ metadata = SampleMetadata
    /\ task_number = 1
    /\ errors = None
    /\ nodes = None
    /\ ParserIdle
    /\ CleanIdle
    /\ HeapIdle
    /\ StoreIdle

\* config = preset_table_default(question_type)
PresetTableDefault ==
    /\ pc = "call_preset"
    /\ config' = Some(preset_table_default(question_type))
    /\ pc' = "configured"
    /\ UNCHANGED <<parserVars, cleanVars, evalVars, heapVars, storeVars, question_type, v1_config, errors,
                   question_dict, metadata, task_number, nodes>>

\* config = preset_dash_answer(question_type)
PresetDashAnswer ==
    /\ pc = "call_preset"
    /\ config' = Some(preset_dash_answer(question_type))
    /\ pc' = "configured"
    /\ UNCHANGED <<parserVars, cleanVars, evalVars, heapVars, storeVars, question_type, v1_config, errors,
                   question_dict, metadata, task_number, nodes>>

\* config = migrate_v1_to_v2(v1_config, question_type)
Migrate ==
    /\ pc = "call_migrate"
    /\ config' = Some(migrate_v1_to_v2(Val(v1_config), question_type))
    /\ pc' = "configured"
    /\ UNCHANGED <<parserVars, cleanVars, evalVars, heapVars, storeVars, question_type, v1_config, errors,
                   question_dict, metadata, task_number, nodes>>

\* errors = validate_template_config_v2(config)
Validate ==
    /\ pc = "configured"
    /\ errors' = Some(validate_template_config_v2(Val(config)))
    /\ pc' = "validated"
    /\ UNCHANGED <<parserVars, cleanVars, evalVars, heapVars, storeVars, question_type, v1_config, config,
                   question_dict, metadata, task_number, nodes>>

\* nodes = render_question_html(config, question_dict, metadata, task_number)
Render ==
    /\ pc = "configured"
    /\ nodes' = Some(render_question_html(Val(config), question_dict, metadata,
                                          task_number))
    /\ pc' = "rendered"
    /\ UNCHANGED <<parserVars, cleanVars, evalVars, heapVars, storeVars, question_type, v1_config, config,
                   errors, question_dict, metadata, task_number>>

\* eval_value = _eval_pipe(eval_expr, ctx, item=eval_item), ctx as
\* render_question_html builds it
EvalPipe ==
    /\ pc = "call_eval"
    /\ eval_value' =
          Some(_eval_pipe(eval_expr,
                          [question |-> _get_question_view(question_dict),
                           metadata |-> metadata,
                           task_header |-> TaskHeader(metadata, task_number)],
                          eval_item))
    /\ pc' = "evaluated"
    /\ UNCHANGED <<parserVars, cleanVars, templateVars, heapVars, storeVars,
                   eval_expr, eval_item>>

NextTemplate ==
    \/ PresetTableDefault
    \/ PresetDashAnswer
    \/ Migrate
    \/ Validate
    \/ Render
    \/ EvalPipe

SpecTemplate == InitTemplate /\ [][NextTemplate]_vars

\* the blocks of the configuration at hand, <<>> when it has no list of them
ConfigBlocks ==
    LET cfg == Val(config)
        blocks == IF isinstance(cfg, {"dict"}) THEN Get(cfg.value, "blocks", PyNone)
                  ELSE PyNone
    IN IF isinstance(blocks, {"list"}) THEN blocks.value ELSE <<>>

\* the configuration at hand is a preset of question_type
IsTablePreset ==
    /\ question_type \in KnownTypes
    /\ v1_config = None
    /\ config = Some(preset_table_default(question_type))

IsDashPreset ==
    /\ question_type \in KnownTypes
    /\ v1_config = None
    /\ config = Some(preset_dash_answer(question_type))

-----------------------------------------------------------------------------
(* C16 *)

\* C16: for each of the five question types the validator returns no error
\* for preset_table_default(type) and none for preset_dash_answer(type).
C16_PresetsValidate ==
    (pc = "validated" /\ (IsTablePreset \/ IsDashPreset)) => Val(errors) = <<>>

-----------------------------------------------------------------------------
(* C17 *)

\* C17: for every legacy configuration and every known question type the
\* validator returns no error for the migrated configuration, whose version
\* is 2.
C17_MigratedValidates ==
    (pc = "validated" /\ v1_config # None) =>
        /\ Val(errors) = <<>>
        /\ EqualsInt(Get(Val(config).value, "version", PyNone), SchemaVersion)

-----------------------------------------------------------------------------
(* C18 *)

\* C18: for each of the five question types, rendering
\* preset_table_default(type) with a minimal question of the type gives at
\* least one node and no diagnostic.
C18_PresetRenders ==
    (pc = "rendered" /\ IsTablePreset /\ question_dict = SampleQuestion(question_type)) =>
        /\ Val(nodes).kind = "html"
        /\ Len(Val(nodes).out) >= 1

-----------------------------------------------------------------------------
(* C19 *)

\* the table blocks of the configuration at hand
TableBlocks == {ConfigBlocks[k] : k \in {j \in 1..Len(ConfigBlocks) : IsTableBlock(ConfigBlocks[j])}}

\* the value under a key of a block is there and not None
Present(b, key) == ~isinstance(Get(b.value, key, PyNone), {"NoneType"})

Validated == pc = "validated" /\ Val(errors) = <<>>

ColsNonEmpty(b) ==
    /\ isinstance(Get(b.value, "cols", PyNone), {"list"})
    /\ b.value.cols.value # <<>>

HeadersMatchCols(b) ==
    Present(b, "headers") =>
        /\ isinstance(b.value.headers, {"list"})
        /\ Len(b.value.headers.value) = Len(b.value.cols.value)

-----------------------------------------------------------------------------
(* C20 *)

VersionError == ConfigError("config.version must be 2")
StylesError == ConfigError("config.styles must be an object")
BlocksError == ConfigError("config.blocks must be a non-empty list")

\* the returned errors of the block at index idx (from 0)
ErrorsOfBlock(idx) == SelectSeq(Val(errors), LAMBDA e : e.block = Some(idx))

\* the configuration at hand is an object with a non-empty list of blocks
HasBlocks == isinstance(Val(config), {"dict"}) /\ ConfigBlocks # <<>>

\* the place of an error in the order of the checks
Rank(e) ==
    IF e = VersionError THEN -3
    ELSE IF e = StylesError THEN -2
    ELSE IF e.block = None THEN -1
    ELSE Val(e.block)

-----------------------------------------------------------------------------
(* C21 *)

\* the context render_question_html evaluates the patterns in
RenderContext ==
    [question |-> _get_question_view(question_dict),
     metadata |-> metadata,
     task_header |-> TaskHeader(metadata, task_number)]

Invalid == validate_template_config_v2(Val(config)) # <<>>

\* the render of a configuration without errors has ended
Rendered == pc = "rendered" /\ ~Invalid

\* C21: whenever the validator reports an error for the configuration, the
\* render result is the one diagnostic with the errors of the validator and
\* holds no node of any block.
C21_FailsClosed ==
    (pc = "rendered" /\ Invalid) =>
        Val(nodes) = [kind |-> "error",
                      errors |-> validate_template_config_v2(Val(config))]

\* a diagnostic for a configuration with a block that is valid by itself
C21_Witness ==
    /\ pc = "rendered"
    /\ Val(nodes).kind = "error"
    /\ HasBlocks
    /\ \E k \in 1..Len(ConfigBlocks) : BlockErrors(ConfigBlocks[k], k - 1) = <<>>

-----------------------------------------------------------------------------
(* C22 *)

\* the kind of the node of a block of the given kind
NodeKind(kind) ==
    CASE kind = LINE -> "line"
      [] kind = SPACER -> "spacer"
      [] kind = LIST -> "list"
      [] kind = TABLE -> "table"

\* C22: the render of a configuration without errors has one node for each
\* block, in the order of the blocks, the k-th node being the one of the
\* k-th block and of its kind.
C22_OneNodePerBlock ==
    Rendered =>
        /\ Val(nodes).kind = "html"
        /\ Len(Val(nodes).out) = Len(ConfigBlocks)
        /\ \A k \in 1..Len(ConfigBlocks) :
              /\ Val(nodes).out[k].kind = NodeKind(ConfigBlocks[k].value.kind.value)
              /\ <<Val(nodes).out[k]>> =
                    RenderBlock(ConfigBlocks[k], question_dict, RenderContext)

\* a spacer and, after it, a node of another kind
C22_Witness ==
    /\ Rendered
    /\ Len(ConfigBlocks) >= 2
    /\ \E k, m \in 1..Len(Val(nodes).out) :
          /\ k < m
          /\ Val(nodes).out[k].kind = "spacer"
          /\ Val(nodes).out[m].kind # "spacer"

-----------------------------------------------------------------------------
(* C23 *)

\* the blocks of a kind, by index
BlocksOfKind(kind) ==
    {k \in 1..Len(ConfigBlocks) : EqualsStr(ConfigBlocks[k].value.kind, kind)}

\* the elements of the source of the k-th block
SourceItems(k) == ItemsOf(Get(ConfigBlocks[k].value, "source", PyNone), question_dict)

\* as many items or rows as the source has elements, one when it has none
CountOf(k) == IF SourceItems(k) # <<>> THEN Len(SourceItems(k)) ELSE 1

\* the row of a table block for an item
RowOf(k, item_) ==
    [c \in 1..Len(ConfigBlocks[k].value.cols.value) |->
        _render_pattern(ConfigBlocks[k].value.cols.value[c].value, RenderContext, item_)]

\* the cells of the r-th row of the k-th node, without their styles
CellsOf(k, r) ==
    [c \in 1..Len(Val(nodes).out[k].rows[r]) |-> Val(nodes).out[k].rows[r][c].html]

\* the pattern of a list block
PatternOf(k) == Get(ConfigBlocks[k].value, "pattern", PyStr(<<"{", "{", "i", "t", "e", "m", "}", "}">>)).value

\* C23 as stated: a list or table block has one item or row for each element
\* of its source and, when the source is empty or missing, exactly one,
\* rendered against an unbound item.
C23_Original ==
    Rendered =>
        /\ \A k \in BlocksOfKind(LIST) :
              /\ Len(Val(nodes).out[k].lis) = CountOf(k)
              /\ SourceItems(k) = <<>> =>
                    Val(nodes).out[k].lis[1] = _render_pattern(PatternOf(k), RenderContext, PyNone)
        /\ \A k \in BlocksOfKind(TABLE) :
              /\ Len(Val(nodes).out[k].rows) = CountOf(k)
              /\ SourceItems(k) = <<>> => CellsOf(k, 1) = RowOf(k, PyNone)

\* C23 (amended): a list or table block has one item or row for each element
\* of its source and exactly one when the source is empty or missing; that
\* one row of a table is rendered against an unbound item, that one item of
\* a list is empty, whatever the pattern.
C23_AtLeastOne ==
    Rendered =>
        /\ \A k \in BlocksOfKind(LIST) :
              /\ Len(Val(nodes).out[k].lis) = CountOf(k)
              /\ \A r \in 1..Len(SourceItems(k)) :
                    Val(nodes).out[k].lis[r] =
                        _render_pattern(PatternOf(k), RenderContext, SourceItems(k)[r])
              /\ SourceItems(k) = <<>> => Val(nodes).out[k].lis[1] = <<>>
        /\ \A k \in BlocksOfKind(TABLE) :
              /\ Len(Val(nodes).out[k].rows) = CountOf(k)
              /\ \A r \in 1..Len(SourceItems(k)) : CellsOf(k, r) = RowOf(k, SourceItems(k)[r])
              /\ SourceItems(k) = <<>> => CellsOf(k, 1) = RowOf(k, PyNone)

\* a list over a source without elements whose pattern has text of its own:
\* its one item is empty
C23_Witness ==
    /\ Rendered
    /\ \E k \in BlocksOfKind(LIST) :
          /\ SourceItems(k) = <<>>
          /\ _render_pattern(PatternOf(k), RenderContext, PyNone) # <<>>
          /\ Val(nodes).out[k].lis = << <<>> >>

-----------------------------------------------------------------------------
(* C24 *)

\* the correct answers of the question at hand
CorrectAnswers == Range(GetOrEmptyList(question_dict, "correct_answers").value)

\* the marker of is_correct
Marker == <<"+">>

\* the table of the scenario: the answers and the mark of the correct ones
ScenarioConfig ==
    PyDict([version |-> PyInt(SchemaVersion),
            blocks |-> PyList(<<
                PyDict([kind |-> PyStr(TABLE), source |-> PyStr(ANSWERS_ALL),
                        cols |-> PyList(<<PyStr(<<"{", "{", "i", "t", "e", "m", "}", "}">>),
                                          PyStr(<<"{", "{", "i", "t", "e", "m", "|", "i", "s", "_", "c", "o", "r", "r", "e", "c", "t", "}", "}">>)>>)])>>)])

\* C24: base|is_correct is the marker when the value of base is one of the
\* correct answers of the question and base|if_correct is that value then,
\* both are the empty string otherwise; so the table over answers_all with
\* cols {{item}} and {{item|is_correct}} has a row for each answer, its
\* second cell not empty exactly for the correct answers.
C24_Pipes ==
    /\ pc = "evaluated" =>
          \A base \in EvalBases :
             LET val == _eval_pipe(base, RenderContext, eval_item)
                 member == PyStr(val) \in CorrectAnswers
             IN /\ eval_expr \in {base \o <<"|", "i", "s", "_", "c", "o", "r", "r", "e", "c", "t">>, base \o <<" ", "|", " ", "i", "s", "_", "c", "o", "r", "r", "e", "c", "t", " ">>} =>
                      Val(eval_value) = IF member THEN Marker ELSE <<>>
                /\ eval_expr = base \o <<"|", "i", "f", "_", "c", "o", "r", "r", "e", "c", "t">> =>
                      Val(eval_value) = IF member THEN val ELSE <<>>
    /\ (Rendered /\ config = Some(ScenarioConfig) /\ SourceItems(1) # <<>>) =>
          /\ Len(Val(nodes).out[1].rows) = Len(SourceItems(1))
          /\ \A r \in 1..Len(SourceItems(1)) :
                /\ Val(nodes).out[1].rows[r][1].html = html_escape(SourceItems(1)[r].value)
                /\ Val(nodes).out[1].rows[r][2].html # <<>>
                      <=> SourceItems(1)[r] \in CorrectAnswers

\* the table of the scenario with a marked row before a row without mark
C24_Witness ==
    /\ Rendered
    /\ config = Some(ScenarioConfig)
    /\ Len(Val(nodes).out[1].rows) = 2
    /\ Val(nodes).out[1].rows[1][2].html = Marker
    /\ Val(nodes).out[1].rows[2][2].html = <<>>

-----------------------------------------------------------------------------
(* C25 *)

\* the lookup of a base form finds nothing: the form is not known, the field
\* is missing, no item is bound, or the item is not a record
Unresolved(base) ==
    \/ base \in {<<"z", "z", "z">>, <<"t", "a", "s", "k", ".", "h", "e", "a", "d", "e", "r", "s">>, <<>>}
    \/ base \in {<<"q", "u", "e", "s", "t", "i", "o", "n", ".", "z", "z", "z">>, <<"q", "u", "e", "s", "t", "i", "o", "n", ".">>, <<"m", "e", "t", "a", "d", "a", "t", "a", ".", "z", "z", "z">>}
    \/ base \in {<<"i", "t", "e", "m">>, <<"i", "t", "e", "m", ".", "i", "t", "e", "m">>, <<"i", "t", "e", "m", ".", "a", "n", "s", "w", "e", "r">>, <<"i", "t", "e", "m", ".", "z", "z", "z">>}
          /\ eval_item = PyNone
    \/ base \in {<<"i", "t", "e", "m", ".", "i", "t", "e", "m">>, <<"i", "t", "e", "m", ".", "a", "n", "s", "w", "e", "r">>, <<"i", "t", "e", "m", ".", "z", "z", "z">>}
          /\ ~isinstance(eval_item, {"dict"})
    \/ base = <<"i", "t", "e", "m", ".", "z", "z", "z">>
    \/ base = <<"i", "t", "e", "m", ".", "a", "n", "s", "w", "e", "r">> /\ isinstance(eval_item, {"dict"})
          /\ "answer" \notin DOMAIN eval_item.value

\* C25: an unknown base form, a missing field of the question or of the
\* metadata, item or item.<field> without a bound item and item.<field> on an
\* item that is not a record all evaluate to the empty string.
C25_Unresolved ==
    (pc = "evaluated" /\ eval_expr \in EvalBases /\ Unresolved(eval_expr)) =>
        Val(eval_value) = <<>>

\* item.answer on an item that is a text
C25_Witness ==
    /\ pc = "evaluated"
    /\ eval_expr = <<"i", "t", "e", "m", ".", "a", "n", "s", "w", "e", "r">>
    /\ eval_item = PyStr(<<"2">>)
    /\ eval_value = Some(<<>>)

-----------------------------------------------------------------------------
(* C26 *)

RECURSIVE SumOf(_)
\* sum(widths) of a list of integers
SumOf(widths) == IF widths = <<>> THEN 0 ELSE widths[1].value + SumOf(Tail(widths))

\* the col_widths_pct of the k-th block, <<>> without them
WidthsOf(k) == GetOrEmptyList(ConfigBlocks[k], "col_widths_pct").value

\* the styles of the cells of the k-th node, head and rows
StylesOf(k) ==
    LET node == Val(nodes).out[k] IN
    {node.rows[r][c].style : r \in 1..Len(node.rows), c \in 1..Len(ConfigBlocks[k].value.cols.value)}
    \cup (IF node.head = None THEN {}
          ELSE {Val(node.head)[c].style : c \in 1..Len(Val(node.head))})

\* C26: the cells of a table have no width when col_widths_pct sums to zero
\* or has not the length of cols, and the widths of col_widths_pct otherwise.
C26_WidthsIgnored ==
    Rendered =>
        \A k \in BlocksOfKind(TABLE) :
            IF Len(WidthsOf(k)) # Len(ConfigBlocks[k].value.cols.value)
               \/ SumOf(WidthsOf(k)) = 0
            THEN StylesOf(k) = {<<>>}
            ELSE \A r \in 1..Len(Val(nodes).out[k].rows) :
                    \A c \in 1..Len(WidthsOf(k)) :
                        Val(nodes).out[k].rows[r][c].style =
                            <<"w", "i", "d", "t", "h", ":">> \o IntToStr(WidthsOf(k)[c].value) \o <<"%">>

-----------------------------------------------------------------------------
(* C27 *)

\* the styles of the legacy configuration, {} when it has no dict of them
LegacyStyles ==
    LET v1_styles == Get(Val(v1_config).value, "styles", PyNone) IN
    IF isinstance(v1_styles, {"dict"}) THEN v1_styles.value ELSE EmptyDict.value

\* the table_cols_pct of the legacy layout of question_type, None without
LegacyTableCols ==
    LET layout == Get(Val(v1_config).value, "layout", PyNone)
        type_layout == IF isinstance(layout, {"dict"})
                       THEN Get(layout.value, question_type, PyNone) ELSE PyNone
    IN IF isinstance(type_layout, {"dict"})
       THEN Get(type_layout.value, "table_cols_pct", PyNone) ELSE PyNone

\* a non-empty list of numbers
NumericList(v) ==
    /\ isinstance(v, {"list"})
    /\ v.value # <<>>
    /\ \A k \in 1..Len(v.value) : isinstance(v.value[k], {"int", "float"})

\* migrate_v1_to_v2 has returned
Migrated == pc = "configured" /\ v1_config # None

\* C27: the migrated configuration is preset_table_default(question_type)
\* with the legacy header_color when that is a non-blank string, with each
\* legacy size that is a number, and with the legacy table_cols_pct of the
\* question type, when a non-empty list of numbers, as the col_widths_pct of
\* the first table block.
C27_Overlay ==
    Migrated =>
        LET preset == preset_table_default(question_type).value
            styles == Val(config).value.styles.value
            blocks == Val(config).value.blocks.value
            color == Get(LegacyStyles, "header_color", PyNone)
            tables == {k \in 1..Len(preset.blocks.value) : IsTableBlock(preset.blocks.value[k])}
        IN
        /\ styles.header_color =
              IF isinstance(color, {"str"}) /\ strip(color.value) # <<>>
              THEN color ELSE preset.styles.value.header_color
        /\ \A k \in 1..Len(SizeKeys) :
              styles[SizeKeys[k]] =
                 IF isinstance(Get(LegacyStyles, SizeKeys[k], PyNone), {"int", "float"})
                 THEN PyInt(int(LegacyStyles[SizeKeys[k]]))
                 ELSE preset.styles.value[SizeKeys[k]]
        /\ Len(blocks) = Len(preset.blocks.value)
        /\ \A k \in 1..Len(blocks) :
              blocks[k] =
                 IF k = FirstOf(tables) /\ NumericList(LegacyTableCols)
                 THEN DictSet(preset.blocks.value[k], "col_widths_pct",
                              PyList([c \in 1..Len(LegacyTableCols.value) |->
                                         PyInt(int(LegacyTableCols.value[c]))]))
                 ELSE preset.blocks.value[k]

-----------------------------------------------------------------------------
(* C29 *)

\* C29: in the returned list only the first course can be the synthetic one:
\* a question that no valid category precedes is in the first course, the
\* synthetic one, and a question that a valid category precedes is never in
\* a synthetic course, whatever categories follow that one.
C29_SyntheticFirst ==
    Returned =>
        \A c \in 1..Len(courses) :
            \A j \in 1..Len(courses[c].questions) :
                IF CategoryBefore(courses[c].questions[j].elem) = 0
                THEN c = 1 /\ courses[c].name = Uncategorized
                ELSE courses[c].name # Uncategorized

\* the synthetic course, then the course of a valid category whose question
\* comes after an ignored category
C29_Witness ==
    /\ Returned
    /\ Len(courses) = 2
    /\ courses[1].name = Uncategorized
    /\ \E k \in Positions :
          /\ IgnoredCategory(k)
          /\ CategoryBefore(k) # 0
          /\ \E q \in QuestionPositions : q > k

-----------------------------------------------------------------------------
(* web.utils.template_storage: the template store under concurrent requests *)

\* The store file holds a list of templates.  A template is kept as
\* [id, name, revisions |-> the number of its revisions]; str(uuid4()) of a
\* request is the number of the request, so no two requests draw the same id.
\* Each function reads the file once and writes it at most once, with no
\* lock between the two: the read and the write are the steps of a request.

\* most requests running at once
MaxRequests == 2
\* revs[-10:]
MaxRevisions == 10

\* a template saved before the requests start
StoredTemplate == [id |-> 0, name |-> "stored", revisions |-> 0]

\* the ids of a list of templates
Ids(templates) == {templates[k].id : k \in 1..Len(templates)}

\* the functions of the module that write the store
Operations == {"save_template", "import_template", "update_template", "delete_template"}

\* requests with any of the functions; update and delete name the stored
\* template
InitStore ==
    /\ pc = "serving"
    /\ store \in {<<>>, <<StoredTemplate>>}
    /\ \E n \in 1..MaxRequests : \E ops \in [1..n -> Operations] :
          requests = [r \in 1..n |->
                        [op |-> ops[r], pc |-> "start", templates |-> <<>>,
                         template_id |-> StoredTemplate.id, returned |-> None]]
    /\ ParserIdle
    /\ CleanIdle
    /\ TemplateIdle
    /\ EvalIdle
    /\ HeapIdle

\* templates = _read_store(): the content of the file, [] for a file that
\* was missing and is created by the read
ReadStore(r) ==
    /\ requests[r].pc = "start"
    /\ requests' = [requests EXCEPT ![r].templates = store, ![r].pc = "read"]
    /\ UNCHANGED <<pc, parserVars, cleanVars, templateVars, evalVars, heapVars, store>>

\* save_template after its read: templates.append(template);
\* _write_store(templates); return template
SaveTemplate(r) ==
    /\ requests[r].pc = "read"
    /\ requests[r].op = "save_template"
    /\ LET template == [id |-> r, name |-> "saved", revisions |-> 0] IN
       /\ store' = Append(requests[r].templates, template)
       /\ requests' = [requests EXCEPT ![r].pc = "done", ![r].returned = Some(template)]
    /\ UNCHANGED <<pc, parserVars, cleanVars, templateVars, evalVars, heapVars>>

\* import_template after its read
ImportTemplate(r) ==
    /\ requests[r].pc = "read"
    /\ requests[r].op = "import_template"
    /\ LET template == [id |-> r, name |-> "imported", revisions |-> 0] IN
       /\ store' = Append(requests[r].templates, template)
       /\ requests' = [requests EXCEPT ![r].pc = "done", ![r].returned = Some(template)]
    /\ UNCHANGED <<pc, parserVars, cleanVars, templateVars, evalVars, heapVars>>

\* update_template after its read: the first template of the id gets a
\* revision and the new fields, and the list is written when one was found
UpdateTemplate(r) ==
    /\ requests[r].pc = "read"
    /\ requests[r].op = "update_template"
    /\ LET templates == requests[r].templates
           found == {k \in 1..Len(templates) : templates[k].id = requests[r].template_id}
           updated == found # {}
           first == FirstOf(found)
       IN
       /\ store' =
            IF updated
            THEN [templates EXCEPT
                    ![first] = [id |-> @.id, name |-> "updated",
                                revisions |-> IF @.revisions + 1 > MaxRevisions
                                              THEN MaxRevisions
                                              ELSE @.revisions + 1]]
            ELSE store
       /\ requests' = [requests EXCEPT ![r].pc = "done", ![r].returned = Some(updated)]
    /\ UNCHANGED <<pc, parserVars, cleanVars, templateVars, evalVars, heapVars>>

\* delete_template after its read: the list without the templates of the id
\* is written when it is shorter
DeleteTemplate(r) ==
    /\ requests[r].pc = "read"
    /\ requests[r].op = "delete_template"
    /\ LET templates == requests[r].templates
           new_templates == SelectSeq(templates,
                                      LAMBDA tpl : tpl.id # requests[r].template_id)
           deleted == Len(new_templates) # Len(templates)
       IN
       /\ store' = IF deleted THEN new_templates ELSE store
       /\ requests' = [requests EXCEPT ![r].pc = "done", ![r].returned = Some(deleted)]
    /\ UNCHANGED <<pc, parserVars, cleanVars, templateVars, evalVars, heapVars>>

NextStore ==
    \/ \E r \in DOMAIN requests : ReadStore(r)
    \/ \E r \in DOMAIN requests : SaveTemplate(r)
    \/ \E r \in DOMAIN requests : ImportTemplate(r)
    \/ \E r \in DOMAIN requests : UpdateTemplate(r)
    \/ \E r \in DOMAIN requests : DeleteTemplate(r)

SpecStore == InitStore /\ [][NextStore]_vars

-----------------------------------------------------------------------------
(* C30 *)

\* every request has returned
AllDone == \A r \in DOMAIN requests : requests[r].pc = "done"

\* the requests that returned a new template; none of these is deleted, a
\* delete names the template stored before
Saving == {r \in DOMAIN requests : requests[r].op \in {"save_template", "import_template"}}

\* C30: once all requests have returned, every template returned by
\* save_template or import_template is in the store.
C30_NoLostUpdate ==
    (pc = "serving" /\ AllDone) =>
        \A r \in Saving : Val(requests[r].returned).id \in Ids(store)

-----------------------------------------------------------------------------
(* template_engine: the objects of the interpreter *)

\* The dicts and lists of the program are objects: heap maps the address of
\* an object to its content, [type |-> "dict", value |-> key -> slot] or
\* [type |-> "list", value |-> sequence of slots].  A slot holds an immutable
\* value (None, int, float, str) or a reference to an object.  An address is
\* the root an object was created under followed by its place below the
\* root, so objects created by different evaluations have different
\* addresses.

\* most calls in a run
MaxCalls == 3

Ref(address) == [type |-> "ref", value |-> address]

IsContainer(v) == v.type \in {"dict", "list"}

\* the places of the slots of a dict or a list
Keys(v) ==
    IF v.type = "dict" THEN DOMAIN v.value
    ELSE {ToString(k) : k \in DOMAIN v.value}

\* the slot of a dict or a list at a place
Child(v, key) ==
    IF v.type = "dict" THEN v.value[key]
    ELSE v.value[CHOOSE k \in DOMAIN v.value : ToString(k) = key]

RECURSIVE ContainerPaths(_)
\* the places of the dicts and lists inside a value, the value included
ContainerPaths(v) ==
    IF ~IsContainer(v) THEN {}
    ELSE {<<>>} \cup UNION {{<<key>> \o p : p \in ContainerPaths(Child(v, key))} :
                             key \in Keys(v)}

RECURSIVE At(_, _)
At(v, path) == IF path = <<>> THEN v ELSE At(Child(v, Head(path)), Tail(path))

\* the content of the object made for a dict or list display at an address
Shallow(address, v) ==
    IF v.type = "dict"
    THEN PyDict([key \in DOMAIN v.value |->
                    IF IsContainer(v.value[key]) THEN Ref(Append(address, key))
                    ELSE v.value[key]])
    ELSE PyList([k \in DOMAIN v.value |->
                    IF IsContainer(v.value[k]) THEN Ref(Append(address, ToString(k)))
                    ELSE v.value[k]])

\* evaluating a dict or list display: one new object for each dict and list
\* of the display
New(base, v) ==
    [address \in {base \o p : p \in ContainerPaths(v)} |->
        Shallow(address, At(v, SubSeq(address, Len(base) + 1, Len(address))))]

RECURSIVE Deref(_, _)
\* the value a slot stands for
Deref(h, slot) ==
    IF slot.type # "ref" THEN slot
    ELSE LET cell == h[slot.value] IN
         IF cell.type = "dict"
         THEN PyDict([key \in DOMAIN cell.value |-> Deref(h, cell.value[key])])
         ELSE PyList([k \in DOMAIN cell.value |-> Deref(h, cell.value[k])])

\* type(slot)
TypeOf(h, slot) == IF slot.type = "ref" THEN h[slot.value].type ELSE slot.type

\* d.get(key) of the dict a slot refers to
GetItem(h, d, key) == Get(h[d.value].value, key, PyNone)

\* d[key] = slot
SetItem(h, d, key, slot) == [h EXCEPT ![d.value] = DictSet(@, key, slot)]

\* a preset kept in one object per type and handed out at every call
preset_table_default_shared(h, base, question_type_) ==
    LET address == <<"presets", question_type_>> IN
    [heap |-> IF address \in DOMAIN h THEN h
              ELSE h @@ New(address, preset_table_default(question_type_)),
     result |-> Ref(address)]

\* preset_table_default as the interpreter runs it: the dict display of the
\* return statement is evaluated at the call
preset_table_default_call(h, base, question_type_) ==
    [heap |-> h @@ New(base, preset_table_default(question_type_)),
     result |-> Ref(base)]

RECURSIVE overlay_sizes(_, _, _, _)
\* for key_old, key_new in [...]:
\*     if isinstance(v1_styles.get(key_old), (int, float)):
\*         styles[key_new] = int(v1_styles[key_old])
overlay_sizes(h, styles, v1_styles, keys) ==
    IF keys = <<>> THEN h
    ELSE overlay_sizes(
            IF isinstance(Get(v1_styles.value, keys[1], PyNone), {"int", "float"})
            THEN SetItem(h, styles, keys[1], PyInt(int(v1_styles.value[keys[1]])))
            ELSE h,
            styles, v1_styles, Tail(keys))

\* the first statements of migrate_v1_to_v2, on the preset v2 just made:
\* the heap after v2["styles"] = styles
migrate_styles(h1, base, v2, v1) ==
    LET \* styles = v2.get("styles", {})
        has_styles == "styles" \in DOMAIN h1[v2.value].value
        styles == IF has_styles THEN h1[v2.value].value.styles
                  ELSE Ref(Append(base, "{}"))
        \* v1_styles = v1.get("styles") if isinstance(v1.get("styles"), dict) else {}
        v1_styles == IF TypeOf(h1, GetItem(h1, v1, "styles")) = "dict"
                     THEN h1[GetItem(h1, v1, "styles").value]
                     ELSE EmptyDict
        \* styles["header_color"] = v1_styles["header_color"]
        h2 == IF TypeOf(h1, Get(v1_styles.value, "header_color", PyNone)) = "str"
              THEN SetItem(IF has_styles THEN h1 ELSE h1 @@ New(styles.value, EmptyDict),
                           styles, "header_color", v1_styles.value.header_color)
              ELSE IF has_styles THEN h1 ELSE h1 @@ New(styles.value, EmptyDict)
        h3 == overlay_sizes(h2, styles, v1_styles, SizeKeys)
    IN \* v2["styles"] = styles
       SetItem(h3, v2, "styles", styles)

\* the last statements of migrate_v1_to_v2: the heap after the layout
\* widths were put into the first table block
migrate_widths(h4, base, v2, v1, question_type_) ==
    LET layout == IF TypeOf(h4, GetItem(h4, v1, "layout")) = "dict"
                  THEN h4[GetItem(h4, v1, "layout").value]
                  ELSE EmptyDict
        type_layout == Get(layout.value, question_type_, PyNone)
        tc == IF TypeOf(h4, type_layout) = "dict"
              THEN GetItem(h4, type_layout, "table_cols_pct")
              ELSE PyNone
        numeric == /\ TypeOf(h4, tc) = "list"
                   /\ \A k \in DOMAIN h4[tc.value].value :
                         isinstance(h4[tc.value].value[k], {"int", "float"})
        \* table_cols = [int(x) for x in tc]
        table_cols == Ref(Append(base, "table_cols"))
        made == PyList([k \in DOMAIN h4[tc.value].value |->
                           PyInt(int(h4[tc.value].value[k]))])
        blocks == h4[GetItem(h4, v2, "blocks").value].value
        tables == {k \in DOMAIN blocks :
                      /\ TypeOf(h4, blocks[k]) = "dict"
                      /\ GetItem(h4, blocks[k], "kind") = PyStr(TABLE)}
    IN IF ~numeric THEN h4
       ELSE IF made.value # <<>> /\ tables # {}
       THEN \* b["col_widths_pct"] = table_cols
            SetItem(h4 @@ New(table_cols.value, made), blocks[FirstOf(tables)],
                    "col_widths_pct", table_cols)
       ELSE h4 @@ New(table_cols.value, made)

\* migrate_v1_to_v2 as the interpreter runs it, statement by statement:
\* v2 = preset_table_default(question_type), the styles, the widths,
\* return v2
migrate_v1_to_v2_call(h, base, v1, question_type_) ==
    CHOOSE call \in
        {[heap |-> migrate_widths(styled.heap, base, styled.result, v1, question_type_),
          result |-> styled.result] :
            styled \in
                {[heap |-> migrate_styles(preset.heap, base, preset.result, v1),
                  result |-> preset.result] :
                    preset \in {preset_table_default_call(h, base, question_type_)}}} :
        TRUE

\* the legacy configurations of the runs
LegacyConfigs ==
    {EmptyDict,
     PyDict([styles |-> PyInt(1),
             layout |-> PyDict([t \in KnownTypes |->
                 PyDict([table_cols_pct |-> PyList(<<>>)])])]),
     PyDict([styles |-> PyDict([header_color |-> PyStr(<<"#", "0", "0", "F">>),
                                title_size |-> PyFloat(205),
                                body_size |-> PyStr(<<"9">>)]),
             layout |-> PyDict([t \in KnownTypes |->
                 PyDict([table_cols_pct |-> PyList(<<PyFloat(155), PyInt(15), PyInt(70)>>)])])]),
     PyDict([styles |-> PyDict([answer_size |-> PyInt(9)]),
             layout |-> PyDict([t \in KnownTypes |->
                 PyDict([table_cols_pct |-> PyList(<<PyInt(15), PyList(<<PyInt(1)>>)>>)])])])}

\* a legacy configuration, a question and the metadata are objects of the
\* caller; no call has been made
InitHeap ==
    /\ pc = "calling"
    /\ question_type \in KnownTypes
    /\ \E v1 \in LegacyConfigs :
          heap = New(<<"v1">>, v1) @@ New(<<"question">>, SampleQuestion(question_type))
                 @@ New(<<"metadata">>, SampleMetadata)
    /\ v1_ref = Some(Ref(<<"v1">>))
    /\ results = <<>>
    /\ v1_config = None
    /\ config = None
    /\ errors = None
    /\ question_dict = PyNone
    /\ metadata = PyNone
    /\ task_number = 1
    /\ nodes = None
    /\ ParserIdle
    /\ CleanIdle
    /\ EvalIdle
    /\ StoreIdle

\* the address of the objects of the next call
NextBase == <<ToString(Len(results) + 1)>>

\* the configurations a call can be given: the legacy one and the ones
\* returned by earlier calls
Configs ==
    {Val(v1_ref)} \cup {results[k].result : k \in {j \in DOMAIN results :
                            results[j].fn \in {"preset_table_default", "migrate_v1_to_v2"}}}

\* the record of a call: the slots passed, the values they stood for at the
\* call, and the slot returned with the value it stood for at the return
Call(fn, type, args, h, returned) ==
    [fn |-> fn, type |-> type, args |-> args,
     values |-> [k \in DOMAIN args |-> Deref(heap, args[k])],
     result |-> returned, value |-> Deref(h, returned)]

\* preset_table_default(question_type)
CallPreset ==
    /\ pc = "calling"
    /\ Len(results) < MaxCalls
    /\ \E call \in {preset_table_default_call(heap, NextBase, question_type)} :
          /\ heap' = call.heap
          /\ results' = Append(results, Call("preset_table_default", question_type, <<>>,
                                             call.heap, call.result))
    /\ UNCHANGED <<pc, parserVars, cleanVars, templateVars, evalVars, storeVars, v1_ref>>

\* migrate_v1_to_v2(v1, question_type)
CallMigrate ==
    /\ pc = "calling"
    /\ Len(results) < MaxCalls
    /\ \E v1 \in Configs :
          \E call \in {migrate_v1_to_v2_call(heap, NextBase, v1, question_type)} :
          /\ heap' = call.heap
          /\ results' = Append(results, Call("migrate_v1_to_v2", question_type, <<v1>>,
                                             call.heap, call.result))
    /\ UNCHANGED <<pc, parserVars, cleanVars, templateVars, evalVars, storeVars, v1_ref>>

\* validate_template_config_v2(cfg): the function reads cfg and appends to
\* a list of its own
CallValidate ==
    /\ pc = "calling"
    /\ Len(results) < MaxCalls
    /\ \E cfg \in Configs :
          /\ heap' = heap
          /\ results' = Append(results,
                Call("validate_template_config_v2", "", <<cfg>>, heap,
                     [type |-> "errors",
                      value |-> validate_template_config_v2(Deref(heap, cfg))]))
    /\ UNCHANGED <<pc, parserVars, cleanVars, templateVars, evalVars, storeVars, v1_ref>>

\* render_question_html(cfg, question, metadata, task_number): the function
\* reads its arguments and builds dicts and lists of its own
CallRender ==
    /\ pc = "calling"
    /\ Len(results) < MaxCalls
    /\ \E cfg \in Configs :
          /\ heap' = heap
          /\ results' = Append(results,
                Call("render_question_html", "",
                     <<cfg, Ref(<<"question">>), Ref(<<"metadata">>)>>, heap,
                     [type |-> "html",
                      value |-> render_question_html(
                                    Deref(heap, cfg), Deref(heap, Ref(<<"question">>)),
                                    Deref(heap, Ref(<<"metadata">>)), task_number)]))
    /\ UNCHANGED <<pc, parserVars, cleanVars, templateVars, evalVars, storeVars, v1_ref>>

NextHeap == CallPreset \/ CallMigrate \/ CallValidate \/ CallRender

SpecHeap == InitHeap /\ [][NextHeap]_vars

-----------------------------------------------------------------------------
(* C28 *)

\* the calls made so far, in order
Calls == DOMAIN results

\* the objects passed to a call stand for the values they stood for at the
\* call
InputsKept(c) == \A k \in DOMAIN c.args : Deref(heap, c.args[k]) = c.values[k]

\* an earlier or later call of the same function with equal inputs returned
\* an equal result
Repeatable(c) ==
    \A j \in Calls :
        (results[j].fn = c.fn /\ results[j].type = c.type /\ results[j].values = c.values)
            => results[j].value = c.value

\* C28: migrate_v1_to_v2, validate_template_config_v2 and
\* render_question_html leave the configuration, the question and the
\* metadata they were given as they were; whatever calls were made before,
\* preset_table_default(t) returns the built-in preset of t; and two calls
\* of one function with equal inputs return equal results.
C28_Pure ==
    pc = "calling" =>
        \A a \in Calls :
            /\ InputsKept(results[a])
            /\ results[a].fn = "preset_table_default"
                  => results[a].value = preset_table_default(results[a].type)
            /\ Repeatable(results[a])

\* A legacy configuration was migrated twice, the migration overrode the
\* preset, and preset_table_default was called for the same type afterwards.
C28_Witness ==
    /\ pc = "calling"
    /\ \E a, b, c \in Calls :
          /\ a < b /\ b < c
          /\ results[a].fn = "migrate_v1_to_v2"
          /\ results[b].fn = "migrate_v1_to_v2"
          /\ results[a].args = <<Val(v1_ref)>>
          /\ results[b].args = <<Val(v1_ref)>>
          /\ results[a].value # preset_table_default(results[a].type)
          /\ results[c].fn = "preset_table_default"
          /\ results[c].type = results[a].type

====
